---- MODULE Spec2Model ----
(***************************************************************************)
(* Driver monitoring core: the hysteretic driver-state machine             *)
(* (core/state_manager.py); the result synchronisation buffer, the event   *)
(* counter, the identity cache and the processing cycle of the analysis    *)
(* engine (analysis/engine.py); the main loop (app.py).                    *)
(*                                                                         *)
(* Time is the wall clock time.time(), counted in whole seconds; the       *)
(* millisecond timestamps of the engine are counted in the same unit, so   *)
(* the 2000 ms horizon is 2 and the 5.0 s hold is 5.                       *)
(***************************************************************************)
EXTENDS Integers, Sequences, FiniteSets, TLC

VARIABLES
    now,                  \* time.time()
    current_state,        \* EnhancedStateManager.current_state
    state_start_time,     \* EnhancedStateManager.state_start_time
    state_history,        \* EnhancedStateManager.state_history (deque, maxlen 100)
    last_event,           \* observation: argument of the latest handle_event call
    frame_buffer,         \* EnhancedAnalysisEngine.frame_buffer   (dict ts -> frame)
    result_buffer,        \* EnhancedAnalysisEngine.result_buffer  (dict ts -> dict modality -> result)
    processed_data_queue, \* EnhancedAnalysisEngine.processed_data_queue (deque, maxlen 5)
    submitted,            \* observation: timestamps handed to the detectors
    delivered,            \* observation: <<ts, modality>> pairs a callback has recorded
    emitted,              \* observation: timestamps whose bundle was appended to the queue
    dropped,              \* observation: timestamps completed while no frame was buffered
    consumed,             \* observation: timestamps of the bundles the main loop took
    cb,                   \* per detector thread: the statement its callback is at, and its locals
    raised,               \* observation: <<modality, ts, exception>> of callbacks that raised
    event_buffers,        \* CounterBasedAnalyzer.event_buffers (dict type -> deque of times)
    added,                \* observation: per type, the times of all add_event calls
    identity_cache,       \* the TTLCache of _cached_identify_driver, least recently used first
    last_call,            \* observation: key, value and computed? of the latest lookup
    watched,              \* observation: time and value of the latest lookup of the watched key
    keys_used,            \* observation: the largest key looked up so far
    used,                 \* observation: the cached keys, least recently looked up first
    cycle,                \* process_and_annotate_frame: the statement it is at, and its locals
    metrics,              \* EnhancedAnalysisEngine.metrics (the fields the model follows)
    main_loop,            \* DMSApp.main_async_loop: "running" or "ended"
    stopped,              \* VideoInputManager.stopped
    paused,               \* DMSApp.paused
    last_key,             \* observation: the key of the latest _handle_keyboard_input call
    applied               \* observation: the latest call of a scoring function, its arguments and result

smVars == <<current_state, state_start_time, state_history, last_event>>
syncVars == <<frame_buffer, result_buffer, processed_data_queue,
              submitted, delivered, emitted, dropped, consumed>>
cbVars == <<cb, raised>>
counterVars == <<event_buffers, added>>
cacheVars == <<identity_cache, last_call, watched, keys_used, used>>
inputVars == <<stopped, paused, last_key>>
cycleVars == <<cycle, metrics, main_loop, inputVars, applied>>
vars == <<now, smVars, syncVars, cbVars, counterVars, cacheVars, cycleVars>>

\* what a handler of one component leaves alone in the others; the handlers
\* that the processing cycle calls say nothing about the cycle itself
exceptSM == <<syncVars, cbVars, counterVars, cacheVars>>
exceptSync == <<smVars, cbVars, counterVars, cacheVars, cycleVars>>
exceptCb == <<smVars, counterVars, cacheVars, cycleVars>>
exceptCounter == <<smVars, syncVars, cbVars, cacheVars>>
exceptCache == <<smVars, syncVars, cbVars, counterVars>>

----------------------------------------------------------------------------
(* Bounds of the model *)

\* last clock value of the state-machine specification
SMClock == 1
\* most transition records in the state-machine specification
SMHist == 3
\* last clock value of the hold (hysteresis) specification
HoldClock == 6
\* most transition records in the hold specification
HoldHist == 3
\* last clock value of the synchronisation specification
SyncClock == 3
\* most frames handed to the detectors in the synchronisation specification
SyncFrames == 2
\* last clock value of the prune specification
PruneClock == 3
\* most frames handed to the detectors in the prune specification
PruneFrames == 3
\* last clock value of the output-queue specification
QueueClock == 5
\* last clock value of the stalled-modality specification
StallClock == 4
\* most frames handed to the detectors in the stalled-modality specification
StallFrames == 3
\* the pose detector answers only the frames captured before this time
PoseStopsAt == 1
\* last clock value of the repeated-results specification
RepeatClock == 3
\* most frames handed to the detectors in the repeated-results specification
RepeatFrames == 2
\* last clock value of the concurrent-callbacks specification
RaceClock == 3
\* most frames handed to the detectors in the concurrent-callbacks specification
RaceFrames == 2
\* the hand detector answers only the frames captured before this time
HandStopsAt == 1
\* last clock value of the event-counter specification
CounterClock == 360
\* seconds between two looks at the clock in the event-counter specification
CounterStride == 60
\* events are added up to this time in the event-counter specification
CounterAddUntil == 0
\* most add_event calls of a type beyond the capacity of its buffer
CounterExtra == 1
\* most events of the other types while one type is added at a high rate
CounterFew == 1
\* last clock value of the identity-cache specification
CacheClock == 500
\* seconds between two looks at the clock in the identity-cache specification
CacheStride == 160
\* number of different keys (landmark tuples) looked up
CacheKeys == 6
\* the keys up to this one are looked up again and again, the others once
CacheRepeat == 1
\* last clock value of the processing-cycle specification
CycleClock == 1
\* the cycles of the processing-cycle specification deliver events while the
\* transition history is shorter than this, and count events of a type while
\* fewer than this were counted
CycleInputs == 1
\* the scores given to the fusion are the multiples of 1/FusionGrid in [0, 1]
FusionGrid == 5
\* most hands counted on the wheel in the fusion specification
MaxHands == 2
\* most distracting objects in the fusion specification
MaxObjects == 6
\* the last time of the specification of the main loop
LoopClock == 1
\* the fatigue scores given to the risk level are the multiples of 1/RiskGrid in [0, 1]
RiskGrid == 10
\* the last time of the specification of the end of the input
DrainClock == 1
\* the scores given to the check of the state transitions are the tenths at
\* most this many tenths away from one of its thresholds
EventSpan == 2
\* last clock value of the steady-input specification
SteadyClock == 6
\* the clock of the steady-input specification runs while the transition
\* history is shorter than this
SteadyFree == 2
\* the cycles of the engine specification start while the transition history
\* is shorter than this
EngineHist == 3
\* the frames of the engine specification come up to this time
EngineClock == 6
\* most cycles of the snapshot specification
SnapshotCycles == 2
\* the events of the long-history specification are chosen freely, and its
\* clock runs, while the transition history is shorter than this
HistoryFree == 3
\* last clock value of the long-history specification
HistoryClock == 2

----------------------------------------------------------------------------
(* Program constants *)

\* deque(maxlen=100)
HistoryMaxLen == 100
\* current_duration > 5.0
NormalHoldSec == 5
\* deque(maxlen=5)
QueueMaxLen == 5
\* current_time_ms - ts > 2000, in seconds
PruneHorizon == 2

Modalities == {"face", "pose", "hand", "object"}

\* frame_buffer.pop(timestamp_ms, None): no frame (frames are named by times >= 0)
None == -1

\* {}
EmptyDict == [k \in {} |-> None]

DriverStates ==
    {"SAFE", "FATIGUE_LOW", "FATIGUE_HIGH", "DISTRACTION_NORMAL",
     "DISTRACTION_DANGER", "MULTIPLE_RISK", "PHONE_USAGE", "MICROSLEEP",
     "EMOTIONAL_STRESS", "PREDICTIVE_WARNING"}

ImmediateEvents ==
    {"PHONE_USAGE_CONFIRMED", "MICROSLEEP_PREDICTED",
     "EMOTION_STRESS_DETECTED", "PREDICTIVE_RISK_HIGH"}

HandledEvents ==
    ImmediateEvents \cup
    {"FATIGUE_ACCUMULATION", "ATTENTION_DECLINE",
     "DISTRACTION_OBJECT_DETECTED", "NORMAL_BEHAVIOR"}

\* OTHER_EVENT stands for every AnalysisEvent member no branch names
AnalysisEvents == HandledEvents \cup {"OTHER_EVENT"}

----------------------------------------------------------------------------
(* Helpers *)

\* a plausible slip: a full deque keeps what it holds
Mut_deque_keeps_oldest(q, x, n) ==
    IF Len(q) < n THEN Append(q, x) ELSE q

\* collections.deque(maxlen=n).append(x)
DequeAppend(q, x, n) ==
    IF Len(q) < n THEN Append(q, x) ELSE Append(Tail(q), x)

\* dict restricted to the keys in S (dict.pop of the others)
Restrict(f, S) == [k \in S |-> f[k]]

----------------------------------------------------------------------------
(* core/state_manager.py *)

Mut_immediate_swapped(event) ==
    CASE event = "PHONE_USAGE_CONFIRMED" -> "MICROSLEEP"
      [] event = "MICROSLEEP_PREDICTED" -> "PHONE_USAGE"
      [] event = "EMOTION_STRESS_DETECTED" -> "EMOTIONAL_STRESS"
      [] event = "PREDICTIVE_RISK_HIGH" -> "PREDICTIVE_WARNING"

immediate_transitions(event) ==
    CASE event = "PHONE_USAGE_CONFIRMED" -> "PHONE_USAGE"
      [] event = "MICROSLEEP_PREDICTED" -> "MICROSLEEP"
      [] event = "EMOTION_STRESS_DETECTED" -> "EMOTIONAL_STRESS"
      [] event = "PREDICTIVE_RISK_HIGH" -> "PREDICTIVE_WARNING"

\* a plausible slip: escalation that stays at FATIGUE_HIGH
Mut_fatigue_sticky(state) ==
    IF state \in {"FATIGUE_LOW", "FATIGUE_HIGH"} THEN "FATIGUE_HIGH" ELSE "FATIGUE_LOW"

fatigue_accumulation_target(state) ==
    IF state = "FATIGUE_LOW" THEN "FATIGUE_HIGH" ELSE "FATIGUE_LOW"

Mut_attention_sticky(state) ==
    IF state \in {"DISTRACTION_NORMAL", "DISTRACTION_DANGER"}
    THEN "DISTRACTION_DANGER" ELSE "DISTRACTION_NORMAL"

attention_decline_target(state) ==
    IF state = "DISTRACTION_NORMAL" THEN "DISTRACTION_DANGER" ELSE "DISTRACTION_NORMAL"

\* a plausible slip: MULTIPLE_RISK is kept once reached
Mut_object_keeps_multiple(state) ==
    IF state \in {"FATIGUE_HIGH", "EMOTIONAL_STRESS", "MULTIPLE_RISK"}
    THEN "MULTIPLE_RISK" ELSE "DISTRACTION_DANGER"

distraction_object_target(state) ==
    IF state \in {"FATIGUE_HIGH", "EMOTIONAL_STRESS"}
    THEN "MULTIPLE_RISK" ELSE "DISTRACTION_DANGER"

\* a plausible slip: >= instead of >
Mut_normal_at_boundary(state, current_duration) ==
    IF current_duration >= NormalHoldSec THEN "SAFE" ELSE state

normal_behavior_target(state, current_duration) ==
    IF current_duration > NormalHoldSec THEN "SAFE" ELSE state

\* a plausible slip: the final fall-through returns SAFE
Mut_unknown_resets(state) == "SAFE"

unhandled_event_target(state) == state

_determine_enhanced_new_state(event) ==
    LET current_duration == now - state_start_time IN
    IF event \in ImmediateEvents THEN immediate_transitions(event)
    ELSE IF event = "FATIGUE_ACCUMULATION"
         THEN fatigue_accumulation_target(current_state)
    ELSE IF event = "ATTENTION_DECLINE"
         THEN attention_decline_target(current_state)
    ELSE IF event = "DISTRACTION_OBJECT_DETECTED"
         THEN distraction_object_target(current_state)
    ELSE IF event = "NORMAL_BEHAVIOR"
         THEN normal_behavior_target(current_state, current_duration)
    ELSE unhandled_event_target(current_state)

\* a plausible slip: the two states of the record are exchanged
Mut_record_swapped(event, new_state) ==
    [timestamp |-> now, from_state |-> new_state,
     to_state |-> current_state, trigger_event |-> event]

TransitionRecord(event, new_state) ==
    [timestamp |-> now, from_state |-> current_state,
     to_state |-> new_state, trigger_event |-> event]

\* a plausible slip: the record is appended whatever the new state
Mut_history_always(event, new_state) ==
    DequeAppend(state_history, TransitionRecord(event, new_state), HistoryMaxLen)

history_after(event, new_state) ==
    IF new_state # current_state
    THEN DequeAppend(state_history, TransitionRecord(event, new_state), HistoryMaxLen)
    ELSE state_history

\* the states the records of the history lead to
entered_states == {state_history[i].to_state : i \in 1..Len(state_history)}

\* state_counts.get(state, 0) + 1 for every entry of the history
state_counts ==
    [state \in entered_states |->
        Cardinality({i \in 1..Len(state_history) : state_history[i].to_state = state})]

\* get_state_statistics (without current_duration, which get_state_duration gives)
get_state_statistics ==
    IF state_history = <<>> THEN EmptyDict
    ELSE [state_counts |-> state_counts, total_transitions |-> Len(state_history)]

handle_event(event) ==
    LET new_state == _determine_enhanced_new_state(event) IN
    /\ state_history' = history_after(event, new_state)
    /\ current_state' = new_state
    /\ state_start_time' = IF new_state # current_state THEN now ELSE state_start_time
    /\ last_event' = event
    /\ UNCHANGED <<now, exceptSM>>

----------------------------------------------------------------------------
(* analysis/engine.py: the synchronisation buffer *)

\* d[k] = v
SetKey(d, k, v) == (k :> v) @@ d

\* d.pop(k, None): the dict without key k
PopKey(d, k) == Restrict(d, DOMAIN d \ {k})

\* d.get(k)
GetOr(d, k, default) == IF k \in DOMAIN d THEN d[k] ELSE default

\* lines 73-75 (and 79-81, 85-87, 90-92): create the entry if absent, store the result
record_result(rb, timestamp_ms, modality, result) ==
    SetKey(rb, timestamp_ms, SetKey(GetOr(rb, timestamp_ms, EmptyDict), modality, result))

\* a plausible slip: the bundle is queued as soon as either mandatory result is there
Mut_should_queue_either(rb, timestamp_ms) ==
    /\ timestamp_ms \in DOMAIN rb
    /\ ("face" \in DOMAIN rb[timestamp_ms] \/ "pose" \in DOMAIN rb[timestamp_ms])

\* the condition of _try_queue_results
should_queue(rb, timestamp_ms) ==
    /\ timestamp_ms \in DOMAIN rb
    /\ "face" \in DOMAIN rb[timestamp_ms]
    /\ "pose" \in DOMAIN rb[timestamp_ms]

\* a plausible slip: a bounded queue that refuses the new bundle when full
Mut_queue_drop_newest(queue, bundle) ==
    IF Len(queue) < QueueMaxLen THEN Append(queue, bundle) ELSE queue

\* processed_data_queue.append((frame, results))
queue_append(queue, bundle) == DequeAppend(queue, bundle, QueueMaxLen)

\* the keys _prune_buffers walks: those of frame_buffer older than the horizon
stale_timestamps(fb) == {ts \in DOMAIN fb : now - ts > PruneHorizon}

_prune_buffers(fb, rb) ==
    LET stale == stale_timestamps(fb) IN
    [frame_buffer |-> Restrict(fb, DOMAIN fb \ stale),
     result_buffer |-> Restrict(rb, DOMAIN rb \ stale)]

\* a plausible slip: frame_buffer.get(timestamp_ms) instead of pop
Mut_frame_peeked(fb, timestamp_ms) == fb

\* frame_buffer after frame_buffer.pop(timestamp_ms, None)
frames_left(fb, timestamp_ms) == PopKey(fb, timestamp_ms)

\* rb is result_buffer with the callback's result stored
_try_queue_results(rb, timestamp_ms) ==
    IF should_queue(rb, timestamp_ms)
    THEN LET frame == GetOr(frame_buffer, timestamp_ms, None)
             results == rb[timestamp_ms]
             pruned == _prune_buffers(frames_left(frame_buffer, timestamp_ms),
                                      PopKey(rb, timestamp_ms))
         IN /\ processed_data_queue' =
                    IF frame # None
                    THEN queue_append(processed_data_queue, <<frame, results>>)
                    ELSE processed_data_queue
            /\ emitted' = IF frame # None THEN emitted \cup {timestamp_ms} ELSE emitted
            /\ dropped' = IF frame # None THEN dropped ELSE dropped \cup {timestamp_ms}
            /\ frame_buffer' = pruned.frame_buffer
            /\ result_buffer' = pruned.result_buffer
    ELSE /\ result_buffer' = rb
         /\ UNCHANGED <<frame_buffer, processed_data_queue, emitted, dropped>>

on_face_result(result, timestamp_ms) ==
    /\ delivered' = delivered \cup {<<timestamp_ms, "face">>}
    /\ _try_queue_results(record_result(result_buffer, timestamp_ms, "face", result),
                          timestamp_ms)
    /\ UNCHANGED <<now, exceptSync, submitted, consumed>>

on_pose_result(result, timestamp_ms) ==
    /\ delivered' = delivered \cup {<<timestamp_ms, "pose">>}
    /\ _try_queue_results(record_result(result_buffer, timestamp_ms, "pose", result),
                          timestamp_ms)
    /\ UNCHANGED <<now, exceptSync, submitted, consumed>>

on_hand_result(result, timestamp_ms) ==
    /\ delivered' = delivered \cup {<<timestamp_ms, "hand">>}
    /\ result_buffer' = record_result(result_buffer, timestamp_ms, "hand", result)
    /\ UNCHANGED <<now, exceptSync, frame_buffer, processed_data_queue,
                   submitted, emitted, dropped, consumed>>

on_object_result(result, timestamp_ms) ==
    /\ delivered' = delivered \cup {<<timestamp_ms, "object">>}
    /\ result_buffer' = record_result(result_buffer, timestamp_ms, "object", result)
    /\ UNCHANGED <<now, exceptSync, frame_buffer, processed_data_queue,
                   submitted, emitted, dropped, consumed>>

\* the detector front end stores the captured frame under its capture time
\* and hands it to the detectors; the frame is named by that time
run_tasks ==
    /\ frame_buffer' = SetKey(frame_buffer, now, now)
    /\ submitted' = submitted \cup {now}
    /\ UNCHANGED <<now, exceptSync, result_buffer, processed_data_queue,
                   delivered, emitted, dropped, consumed>>

\* app.py: the main loop takes the oldest bundle
popleft ==
    /\ processed_data_queue # <<>>
    /\ consumed' = consumed \cup {Head(processed_data_queue)[1]}
    /\ processed_data_queue' = Tail(processed_data_queue)
    /\ UNCHANGED <<now, exceptSync, frame_buffer, result_buffer,
                   submitted, delivered, emitted, dropped>>

----------------------------------------------------------------------------
(* analysis/engine.py: the callbacks run by the detector threads, one         *)
(* statement at a time. cb[m].pc is the statement thread m executes next;     *)
(* no lock is taken anywhere in the callbacks.                                *)

\* a local holding None is the empty sequence, a local holding d is <<d>>
NoResults == <<>>

\* the thread is not inside a callback
Returned ==
    [pc |-> "returned", timestamp_ms |-> None, result |-> "",
     frame |-> None, results |-> NoResults, stale |-> {}]

\* thread m moves to statement pc with the locals in upd changed
Goto(m, pc, upd) == cb' = [cb EXCEPT ![m] = upd @@ [pc |-> pc] @@ @]

Return(m) == cb' = [cb EXCEPT ![m] = Returned]

\* on_<m>_result is called: `if timestamp_ms not in self.result_buffer:`
cb_if_absent(m, result, timestamp_ms) ==
    /\ cb[m].pc = "returned"
    /\ Goto(m, IF timestamp_ms \in DOMAIN result_buffer THEN "store" ELSE "create",
            [timestamp_ms |-> timestamp_ms, result |-> result])
    /\ UNCHANGED <<now, exceptCb, syncVars, raised>>

\* `self.result_buffer[timestamp_ms] = {}`
cb_create(m) ==
    /\ cb[m].pc = "create"
    /\ result_buffer' = SetKey(result_buffer, cb[m].timestamp_ms, EmptyDict)
    /\ Goto(m, "store", <<>>)
    /\ UNCHANGED <<now, exceptCb, frame_buffer, processed_data_queue, submitted,
                   delivered, emitted, dropped, consumed, raised>>

\* `self.result_buffer[timestamp_ms][m] = result`: KeyError when the entry is gone
cb_store(m) ==
    LET ts == cb[m].timestamp_ms IN
    /\ cb[m].pc = "store"
    /\ IF ts \in DOMAIN result_buffer
       THEN /\ result_buffer' =
                    SetKey(result_buffer, ts, SetKey(result_buffer[ts], m, cb[m].result))
            /\ delivered' = delivered \cup {<<ts, m>>}
            /\ IF m \in {"face", "pose"} THEN Goto(m, "if_complete", <<>>) ELSE Return(m)
            /\ UNCHANGED raised
       ELSE /\ raised' = raised \cup {<<m, ts, "KeyError">>}
            /\ Return(m)
            /\ UNCHANGED <<result_buffer, delivered>>
    /\ UNCHANGED <<now, exceptCb, frame_buffer, processed_data_queue, submitted,
                   emitted, dropped, consumed>>

\* _try_queue_results: the `if` over face and pose
cb_if_complete(m) ==
    /\ cb[m].pc = "if_complete"
    /\ IF should_queue(result_buffer, cb[m].timestamp_ms)
       THEN Goto(m, "pop_frame", <<>>)
       ELSE Return(m)
    /\ UNCHANGED <<now, exceptCb, syncVars, raised>>

\* `frame = self.frame_buffer.pop(timestamp_ms, None)`
cb_pop_frame(m) ==
    LET ts == cb[m].timestamp_ms IN
    /\ cb[m].pc = "pop_frame"
    /\ frame_buffer' = frames_left(frame_buffer, ts)
    /\ Goto(m, "pop_results", [frame |-> GetOr(frame_buffer, ts, None)])
    /\ UNCHANGED <<now, exceptCb, result_buffer, processed_data_queue, submitted,
                   delivered, emitted, dropped, consumed, raised>>

\* `results = self.result_buffer.pop(timestamp_ms, None)`
cb_pop_results(m) ==
    LET ts == cb[m].timestamp_ms IN
    /\ cb[m].pc = "pop_results"
    /\ result_buffer' = PopKey(result_buffer, ts)
    /\ Goto(m, "append", [results |-> IF ts \in DOMAIN result_buffer
                                      THEN <<result_buffer[ts]>> ELSE NoResults])
    /\ UNCHANGED <<now, exceptCb, frame_buffer, processed_data_queue, submitted,
                   delivered, emitted, dropped, consumed, raised>>

\* `if frame is not None and results is not None: ...append((frame, results))`
cb_append(m) ==
    LET ts == cb[m].timestamp_ms
        both == cb[m].frame # None /\ cb[m].results # NoResults
    IN
    /\ cb[m].pc = "append"
    /\ processed_data_queue' =
            IF both
            THEN queue_append(processed_data_queue, <<cb[m].frame, cb[m].results[1]>>)
            ELSE processed_data_queue
    /\ emitted' = IF both THEN emitted \cup {ts} ELSE emitted
    /\ dropped' = IF both THEN dropped ELSE dropped \cup {ts}
    /\ Goto(m, "prune", <<>>)
    /\ UNCHANGED <<now, exceptCb, frame_buffer, result_buffer, submitted,
                   delivered, consumed, raised>>

\* _prune_buffers: the list of stale timestamps is built
cb_prune(m) ==
    LET stale == stale_timestamps(frame_buffer) IN
    /\ cb[m].pc = "prune"
    /\ IF stale = {} THEN Return(m) ELSE Goto(m, "prune_frame", [stale |-> stale])
    /\ UNCHANGED <<now, exceptCb, syncVars, raised>>

\* the list is walked in the insertion order of the dict: oldest capture first
next_stale(stale) == CHOOSE ts \in stale : \A other \in stale : ts <= other

\* `self.frame_buffer.pop(ts, None)`
cb_prune_frame(m) ==
    /\ cb[m].pc = "prune_frame"
    /\ frame_buffer' = PopKey(frame_buffer, next_stale(cb[m].stale))
    /\ Goto(m, "prune_result", <<>>)
    /\ UNCHANGED <<now, exceptCb, result_buffer, processed_data_queue, submitted,
                   delivered, emitted, dropped, consumed, raised>>

\* `self.result_buffer.pop(ts, None)`, then the next element of the list
cb_prune_result(m) ==
    LET ts == next_stale(cb[m].stale)
        rest == cb[m].stale \ {ts}
    IN
    /\ cb[m].pc = "prune_result"
    /\ result_buffer' = PopKey(result_buffer, ts)
    /\ IF rest = {} THEN Return(m) ELSE Goto(m, "prune_frame", [stale |-> rest])
    /\ UNCHANGED <<now, exceptCb, frame_buffer, processed_data_queue, submitted,
                   delivered, emitted, dropped, consumed, raised>>

\* thread m executes the statement it is at
cb_step(m) ==
    \/ cb_create(m)
    \/ cb_store(m)
    \/ cb_if_complete(m)
    \/ cb_pop_frame(m)
    \/ cb_pop_results(m)
    \/ cb_append(m)
    \/ cb_prune(m)
    \/ cb_prune_frame(m)
    \/ cb_prune_result(m)

----------------------------------------------------------------------------
(* analysis/engine.py: CounterBasedAnalyzer *)

EventTypes == {"blinks", "yawns", "head_nods", "gaze_deviations"}

\* deque(maxlen=...) of each buffer
BufferMaxLen ==
    [blinks |-> 300, yawns |-> 100, head_nods |-> 120, gaze_deviations |-> 60]

\* the window of each count, in seconds: blinks_1min, yawns_5min,
\* head_nods_2min, gaze_deviations_1min
CountWindow ==
    [blinks |-> 60, yawns |-> 300, head_nods |-> 120, gaze_deviations |-> 60]

\* self.event_buffers[event_type].append(time.time())
buffer_after_add(buffer, type) == DequeAppend(buffer, now, BufferMaxLen[type])

\* an event type that names no buffer is ignored
add_event(event_type) ==
    /\ IF event_type \in EventTypes
       THEN /\ event_buffers' =
                    [event_buffers EXCEPT
                        ![event_type] = buffer_after_add(@, event_type)]
            /\ added' = [added EXCEPT ![event_type] = Append(@, now)]
       ELSE UNCHANGED <<event_buffers, added>>
    /\ UNCHANGED <<now, exceptCounter>>

\* sum(1 for ts in buffer if now - ts <= window)
count_in_window(buffer, window) ==
    Cardinality({i \in 1..Len(buffer) : now - buffer[i] <= window})

\* the dict get_event_counts returns, keyed by the buffer of each count
get_event_counts ==
    [type \in EventTypes |-> count_in_window(event_buffers[type], CountWindow[type])]

----------------------------------------------------------------------------
(* analysis/engine.py: _cached_identify_driver, memoised by                   *)
(* @cached(cache=TTLCache(maxsize=5, ttl=300)). identity_cache lists the      *)
(* entries of the TTLCache from the least to the most recently used one.      *)

\* TTLCache(maxsize=5, ...)
CacheMaxSize == 5
\* TTLCache(..., ttl=300), in seconds
CacheTTL == 300

\* what identify_driver may return for a key: it reads the identifier's own state
DriverInfos == {"driver_a", "driver_b"}

\* the key whose lookups are observed: the last one that is looked up repeatedly
WatchedKey == CacheRepeat

\* no call yet
NoCall == [key |-> None, value |-> "", computed |-> FALSE]

\* no lookup of the watched key yet
NotSeen == [time |-> None, value |-> "", computed_at |-> None]

\* an entry whose time-to-live is over; at the very end of the time-to-live
\* the releases of the library differ (inclusive or not)
expired(entry, inclusive) ==
    IF inclusive THEN now >= entry.expires ELSE now > entry.expires

\* TTLCache.expire: the expired entries are removed
live_entries(cache, inclusive) ==
    SelectSeq(cache, LAMBDA entry : ~expired(entry, inclusive))

Without(cache, key) == SelectSeq(cache, LAMBDA entry : entry.key # key)

Holds(cache, key) == \E i \in 1..Len(cache) : cache[i].key = key

EntryOf(cache, key) == cache[CHOOSE i \in 1..Len(cache) : cache[i].key = key]

\* cache[k] succeeds: an entry of the key that has not expired
cache_hit(cache, key, inclusive) ==
    Holds(cache, key) /\ ~expired(EntryOf(cache, key), inclusive)

\* a plausible slip: a hit starts the time-to-live of the entry again
Mut_expires_after_hit(entry) == now + CacheTTL

\* a hit leaves the expiry time of the entry alone
expires_after_hit(entry) == entry.expires

\* a plausible slip: a read does not change the order of eviction
Mut_touched_keeps_order(cache, key) == cache

\* TTLCache.__getitem__: the entry read becomes the most recently used
touched(cache, key) ==
    Append(Without(cache, key),
           [EntryOf(cache, key) EXCEPT !.expires = expires_after_hit(EntryOf(cache, key))])

\* popitem while the cache is full: the least recently used entry goes
room_made(cache) == IF Len(cache) >= CacheMaxSize THEN Tail(cache) ELSE cache

\* cache[k] = v: expire, make room, insert with a fresh time-to-live
set_item(cache, key, value, inclusive) ==
    Append(room_made(Without(live_entries(cache, inclusive), key)),
           [key |-> key, value |-> value, expires |-> now + CacheTTL])

\* the wrapper of @cached: return cache[k] if that succeeds, else compute,
\* store and return; info is what identify_driver returns if it is called
_cached_identify_driver(landmarks_tuple, info, inclusive) ==
    LET hit == cache_hit(identity_cache, landmarks_tuple, inclusive)
        value == IF hit THEN EntryOf(identity_cache, landmarks_tuple).value ELSE info
    IN
    /\ identity_cache' =
            IF hit
            THEN touched(identity_cache, landmarks_tuple)
            ELSE set_item(identity_cache, landmarks_tuple, info, inclusive)
    /\ last_call' = [key |-> landmarks_tuple, value |-> value, computed |-> ~hit]
    /\ watched' = IF landmarks_tuple = WatchedKey
                  THEN [time |-> now, value |-> value,
                        computed_at |-> IF hit THEN watched.computed_at ELSE now]
                  ELSE watched
    /\ used' = SelectSeq(Append(SelectSeq(used, LAMBDA k : k # landmarks_tuple),
                                landmarks_tuple),
                         LAMBDA k : Holds(identity_cache', k))
    /\ keys_used' = IF landmarks_tuple > keys_used THEN landmarks_tuple ELSE keys_used
    /\ UNCHANGED <<now, exceptCache>>

----------------------------------------------------------------------------
(* Python floats. The scores of the engine are binary64 numbers, and every    *)
(* arithmetic operation rounds its exact result to the nearest such number    *)
(* (ties to the even significand). Significands are 53 binary digits, too     *)
(* long for one integer, so they are kept as sequences of limbs. No score     *)
(* of the engine comes near the largest or the smallest binary64 number, so   *)
(* exponents are not bounded.                                                 *)

\* natural numbers of any size: limbs in base 2^15, least significant first,
\* no leading zero limb (the highest limb is not 0); 0 is <<>>
Base == 32768
LimbBits == 15

RECURSIVE Trim(_)
Trim(a) == IF a # <<>> /\ a[Len(a)] = 0 THEN Trim(SubSeq(a, 1, Len(a) - 1)) ELSE a

RECURSIVE NatOfInt(_)
NatOfInt(n) == IF n = 0 THEN <<>> ELSE <<n % Base>> \o NatOfInt(n \div Base)

Limb(a, i) == IF i <= Len(a) THEN a[i] ELSE 0

RECURSIVE NatCmpFrom(_, _, _)
NatCmpFrom(a, b, i) ==
    IF i = 0 THEN 0
    ELSE IF a[i] < b[i] THEN -1
    ELSE IF a[i] > b[i] THEN 1
    ELSE NatCmpFrom(a, b, i - 1)

\* -1, 0 or 1 as a < b, a = b or a > b
NatCmp(a, b) ==
    IF Len(a) < Len(b) THEN -1
    ELSE IF Len(a) > Len(b) THEN 1
    ELSE NatCmpFrom(a, b, Len(a))

RECURSIVE NatAddFrom(_, _, _, _)
NatAddFrom(a, b, i, carry) ==
    IF i > Len(a) /\ i > Len(b)
    THEN IF carry = 0 THEN <<>> ELSE <<carry>>
    ELSE LET t == Limb(a, i) + Limb(b, i) + carry IN
         <<t % Base>> \o NatAddFrom(a, b, i + 1, t \div Base)

NatAdd(a, b) == NatAddFrom(a, b, 1, 0)

RECURSIVE NatSubFrom(_, _, _, _)
NatSubFrom(a, b, i, borrow) ==
    IF i > Len(a) THEN <<>>
    ELSE LET t == a[i] - Limb(b, i) - borrow IN
         <<IF t < 0 THEN t + Base ELSE t>>
            \o NatSubFrom(a, b, i + 1, IF t < 0 THEN 1 ELSE 0)

\* a - b for a >= b
NatSub(a, b) == Trim(NatSubFrom(a, b, 1, 0))

RECURSIVE NatMulLimbFrom(_, _, _, _)
NatMulLimbFrom(a, k, i, carry) ==
    IF i > Len(a)
    THEN IF carry = 0 THEN <<>> ELSE <<carry>>
    ELSE LET t == a[i] * k + carry IN
         <<t % Base>> \o NatMulLimbFrom(a, k, i + 1, t \div Base)

\* a * k for a limb k
NatMulLimb(a, k) == IF k = 0 THEN <<>> ELSE NatMulLimbFrom(a, k, 1, 0)

Zeros(n) == [i \in 1..n |-> 0]

RECURSIVE NatMulFrom(_, _, _)
NatMulFrom(a, b, j) ==
    IF j > Len(b) THEN <<>>
    ELSE NatAdd(IF b[j] = 0 THEN <<>> ELSE Zeros(j - 1) \o NatMulLimb(a, b[j]),
                NatMulFrom(a, b, j + 1))

NatMul(a, b) == IF a = <<>> \/ b = <<>> THEN <<>> ELSE NatMulFrom(a, b, 1)

\* a * 2^k
NatShl(a, k) ==
    IF a = <<>> THEN <<>>
    ELSE Zeros(k \div LimbBits) \o NatMulLimb(a, 2 ^ (k % LimbBits))

RECURSIVE NatShrBits(_, _, _)
\* a \div 2^r for r < 15, limb i and above
NatShrBits(a, r, i) ==
    IF i > Len(a) THEN <<>>
    ELSE <<(a[i] \div 2 ^ r) + (Limb(a, i + 1) % 2 ^ r) * 2 ^ (LimbBits - r)>>
            \o NatShrBits(a, r, i + 1)

\* a \div 2^k
NatShr(a, k) ==
    LET whole == k \div LimbBits IN
    IF whole >= Len(a) THEN <<>>
    ELSE Trim(NatShrBits(SubSeq(a, whole + 1, Len(a)), k % LimbBits, 1))

RECURSIVE IntBits(_)
IntBits(n) == IF n = 0 THEN 0 ELSE 1 + IntBits(n \div 2)

\* the number of binary digits of a
NatBits(a) == IF a = <<>> THEN 0 ELSE (Len(a) - 1) * LimbBits + IntBits(a[Len(a)])

\* binary digit k of a (digit 0 is the lowest)
NatBit(a, k) == (Limb(a, k \div LimbBits + 1) \div 2 ^ (k % LimbBits)) % 2

\* the k lowest binary digits of a are all 0
NatLowZero(a, k) == NatShl(NatShr(a, k), k) = a

RECURSIVE NatDigitDown(_, _, _)
\* the largest digit not above guess whose multiple of d is not above r
NatDigitDown(r, d, guess) ==
    IF NatCmp(NatMulLimb(d, guess), r) > 0 THEN NatDigitDown(r, d, guess - 1) ELSE guess

\* r \div d for r < d * Base
NatDigit(r, d) ==
    LET guess == (Limb(r, Len(d) + 1) * Base + Limb(r, Len(d))) \div d[Len(d)] IN
    NatDigitDown(r, d, IF guess >= Base THEN Base - 1 ELSE guess)

RECURSIVE NatDivSteps(_, _, _, _)
\* the quotient q with its next limb, and the remainder left of r2
NatDivTake(q, r2, d, n, digit) ==
    NatDivSteps(<<digit>> \o q, NatSub(r2, NatMulLimb(d, digit)), d, n - 1)

NatDivStep(q, r2, d, n) == NatDivTake(q, r2, d, n, NatDigit(r2, d))

\* n more limbs of the quotient q with remainder r < d, dividing by d
NatDivSteps(q, r, d, n) ==
    IF n = 0 THEN <<Trim(q), r>>
    ELSE NatDivStep(q, IF r = <<>> THEN <<>> ELSE <<0>> \o r, d, n)

\* the same for d with its highest limb at least Base / 2
NatDivNormal(a, d, n) ==
    IF NatCmp(a, d) >= 0
    THEN NatDivSteps(<<1>>, NatSub(a, d), d, n)
    ELSE NatDivSteps(<<>>, a, d, n)

\* the binary digits the highest limb of d leaves free
NatSlack(d) == Len(d) * LimbBits - NatBits(d)

\* <<(a * Base^n) \div d, a remainder that is <<>> exactly when nothing is left>>
\* for a < 2 * d
NatDivShifted(a, d, n) == NatDivNormal(NatShl(a, NatSlack(d)), NatShl(d, NatSlack(d)), n)

\* Python floats (binary64): sign, 53-digit significand m and exponent e,
\* the value being (-1)^sign * m * 2^e; m = <<>> is zero
Precision == 53
\* limbs of a quotient: more than Precision + 2 binary digits
QuotientLimbs == 4

FZero == [sign |-> 0, m |-> <<>>, e |-> 0]

\* a significand of Precision or Precision + 1 digits, made one of Precision
FNormal(sign, m, e) ==
    IF NatBits(m) > Precision
    THEN [sign |-> sign, m |-> NatShr(m, 1), e |-> e + 1]
    ELSE [sign |-> sign, m |-> m, e |-> e]

\* q * 2^e plus the dropped digits: half is the first of them, rest whether
\* any later one is set; ties go to the even significand
FRoundTo(sign, q, e, half, rest) ==
    FNormal(sign, IF half /\ (rest \/ NatBit(q, 0) = 1) THEN NatAdd(q, <<1>>) ELSE q, e)

\* the same, dropping the k lowest digits of n
FRoundBy(sign, n, e, sticky, k) ==
    IF k <= 0 THEN [sign |-> sign, m |-> NatShl(n, -k), e |-> e + k]
    ELSE FRoundTo(sign, NatShr(n, k), e + k, NatBit(n, k - 1) = 1,
                  sticky \/ ~NatLowZero(n, k - 1))

\* the float nearest to n * 2^e (plus a little more if sticky), ties to even
FRound(sign, n, e, sticky) ==
    IF n = <<>> THEN FZero ELSE FRoundBy(sign, n, e, sticky, NatBits(n) - Precision)

FromInt(n) == FRound(IF n < 0 THEN 1 ELSE 0, NatOfInt(IF n < 0 THEN -n ELSE n), 0, FALSE)

FNeg(a) == [a EXCEPT !.sign = 1 - @]

FMul(a, b) ==
    IF a.m = <<>> \/ b.m = <<>> THEN FZero
    ELSE FRound((a.sign + b.sign) % 2, NatMul(a.m, b.m), a.e + b.e, FALSE)

FDivRound(sign, qr, e) == FRound(sign, qr[1], e, qr[2] # <<>>)

FDiv(a, b) ==
    IF a.m = <<>> THEN FZero
    ELSE FDivRound((a.sign + b.sign) % 2, NatDivShifted(a.m, b.m, QuotientLimbs),
                   a.e - b.e - QuotientLimbs * LimbBits)

\* -1, 0 or 1 as |a| < |b|, |a| = |b| or |a| > |b|
FCmpAbs(a, b) ==
    IF a.m = <<>> THEN (IF b.m = <<>> THEN 0 ELSE -1)
    ELSE IF b.m = <<>> THEN 1
    ELSE IF a.e < b.e THEN -1
    ELSE IF a.e > b.e THEN 1
    ELSE NatCmp(a.m, b.m)

FCmp(a, b) ==
    IF a.m = <<>> /\ b.m = <<>> THEN 0
    ELSE IF a.m = <<>> THEN (IF b.sign = 0 THEN -1 ELSE 1)
    ELSE IF b.m = <<>> THEN (IF a.sign = 0 THEN 1 ELSE -1)
    ELSE IF a.sign # b.sign THEN (IF a.sign = 0 THEN 1 ELSE -1)
    ELSE IF a.sign = 0 THEN FCmpAbs(a, b) ELSE FCmpAbs(b, a)

\* x * 2^e of sign sx plus y * 2^e of the other sign, c comparing x with y
FDiffer(sx, x, sy, y, e, c) ==
    IF c = 0 THEN FZero
    ELSE FRound(IF c > 0 THEN sx ELSE sy, IF c > 0 THEN NatSub(x, y) ELSE NatSub(y, x),
                e, FALSE)

FAddAligned(sx, x, sy, y, e) ==
    IF sx = sy THEN FRound(sx, NatAdd(x, y), e, FALSE)
    ELSE FDiffer(sx, x, sy, y, e, NatCmp(x, y))

\* big + small for big.e >= small.e
FAddOrdered(big, small) ==
    IF big.e - small.e > Precision + 2 THEN big
    ELSE FAddAligned(big.sign, NatShl(big.m, big.e - small.e),
                     small.sign, small.m, small.e)

FAdd(a, b) ==
    IF a.m = <<>> THEN b
    ELSE IF b.m = <<>> THEN a
    ELSE IF a.e >= b.e THEN FAddOrdered(a, b) ELSE FAddOrdered(b, a)

FSub(a, b) == FAdd(a, FNeg(b))

FLt(a, b) == FCmp(a, b) < 0
FGt(a, b) == FCmp(a, b) > 0
FEq(a, b) == FCmp(a, b) = 0
FMax(a, b) == IF FCmp(b, a) > 0 THEN b ELSE a
FMin(a, b) == IF FCmp(b, a) < 0 THEN b ELSE a

\* the float written n/d in decimal (n / 10^k): the literal and the division
\* round the same rational to the nearest float
Dec(n, d) == FDiv(FromInt(n), FromInt(d))

\* the literals of the scores: 0.0, 0.1, ... 1.0 and 0.00, 0.01, ... 1.00
Tenths == [n \in 0..10 |-> Dec(n, 10)]

Hundredths == [n \in 0..100 |-> Dec(n, 100)]

----------------------------------------------------------------------------
(* analysis/engine.py: EnhancedMultiModalAnalyzer, the fusion of the scores   *)

F0 == FZero
F1 == FromInt(1)

weights ==
    [face |-> Hundredths[35], pose |-> Hundredths[25], hand |-> Hundredths[20],
     object |-> Hundredths[10], emotion |-> Hundredths[10]]

\* perclos * 0.4 + enhanced_ear * 0.3 + temporal_attention_score * 0.3
face_drowsiness(face_data) ==
    FAdd(FAdd(FMul(face_data.perclos, Tenths[4]),
              FMul(face_data.enhanced_ear, Tenths[3])),
         FMul(face_data.temporal_attention_score, Tenths[3]))

pose_drowsiness(pose_data) == pose_data.head_nod_score

emotion_fatigue(emotion_data) ==
    IF emotion_data.emotion = "FATIGUE" THEN emotion_data.confidence
    ELSE IF FLt(emotion_data.arousal, Tenths[3])
         THEN FSub(F1, emotion_data.arousal)
    ELSE F0

\* a plausible slip: the weight of a modality is added whether or not the
\* modality is available
Mut_weight_always(total_weight, available, weight) == FAdd(total_weight, weight)

\* total_weight += weight, under `if data.get("available")`
weight_added(total_weight, available, weight) ==
    IF available THEN FAdd(total_weight, weight) ELSE total_weight

\* score += contribution * weight, under `if data.get("available")`
score_added(score, available, contribution, weight) ==
    IF available THEN FAdd(score, FMul(contribution, weight)) ELSE score

\* score / total_weight if total_weight > 0 else 0.0
fused(score, total_weight) ==
    IF FGt(total_weight, F0) THEN FDiv(score, total_weight) ELSE F0

fuse_drowsiness_signals(face_data, pose_data, emotion_data) ==
    LET score1 == score_added(F0, face_data.available,
                              face_drowsiness(face_data), weights.face)
        total1 == weight_added(F0, face_data.available, weights.face)
        score2 == score_added(score1, pose_data.available,
                              pose_drowsiness(pose_data), weights.pose)
        total2 == weight_added(total1, pose_data.available, weights.pose)
        score3 == score_added(score2, emotion_data.available,
                              emotion_fatigue(emotion_data), weights.emotion)
        total3 == weight_added(total2, emotion_data.available, weights.emotion)
    IN fused(score3, total3)

\* max(gaze_deviation_score, 1.0 - attention_focus_score)
face_distraction(face_data) ==
    FMax(face_data.gaze_deviation_score, FSub(F1, face_data.attention_focus_score))

hand_distraction(hand_data) == FSub(F1, hand_data.hands_on_wheel_confidence)

object_distraction(object_data) == object_data.distraction_score

emotion_distraction(emotion_data) ==
    IF emotion_data.emotion \in {"STRESS", "ANGER"} THEN emotion_data.confidence
    ELSE F0

fuse_distraction_signals(face_data, hand_data, object_data, emotion_data) ==
    LET score1 == score_added(F0, face_data.available,
                              face_distraction(face_data), weights.face)
        total1 == weight_added(F0, face_data.available, weights.face)
        score2 == score_added(score1, hand_data.available,
                              hand_distraction(hand_data), weights.hand)
        total2 == weight_added(total1, hand_data.available, weights.hand)
        score3 == score_added(score2, object_data.available,
                              object_distraction(object_data), weights.object)
        total3 == weight_added(total2, object_data.available, weights.object)
        score4 == score_added(score3, emotion_data.available,
                              emotion_distraction(emotion_data), weights.emotion)
        total4 == weight_added(total3, emotion_data.available, weights.emotion)
    IN fused(score4, total4)

\* no function of the analyzer has been applied yet
NotApplied == [fn |-> "none"]

\* the dicts that _perform_multimodal_fusion_analysis builds
FaceData(available, perclos, enhanced_ear, temporal_attention_score, gaze_deviation_score, attention_focus_score) ==
    [available |-> available, perclos |-> perclos, enhanced_ear |-> enhanced_ear,
     temporal_attention_score |-> temporal_attention_score,
     gaze_deviation_score |-> gaze_deviation_score,
     attention_focus_score |-> attention_focus_score]

PoseData(available, head_nod_score) ==
    [available |-> available, head_nod_score |-> head_nod_score]

HandData(available, hands_on_wheel_confidence) ==
    [available |-> available, hands_on_wheel_confidence |-> hands_on_wheel_confidence]

ObjectData(available, distraction_score) ==
    [available |-> available, distraction_score |-> distraction_score]

\* "available": self.metrics.emotion_confidence > 0.5
EmotionData(emotion, confidence, arousal) ==
    [available |-> FGt(confidence, Tenths[5]), emotion |-> emotion,
     confidence |-> confidence, arousal |-> arousal]

----------------------------------------------------------------------------
(* analysis/engine.py: _determine_enhanced_overall_risk                       *)

predictive_weight == Tenths[3]

FAbs(a) == [a EXCEPT !.sign = 0]

\* max(fatigue, distraction) blended with the predictive score
blended(m) ==
    FAdd(FMul(FMax(m.fatigue_risk_score, m.distraction_risk_score),
              FSub(F1, predictive_weight)),
         FMul(m.predictive_risk_score, predictive_weight))

stress_added(combined, m) ==
    IF m.emotion_state = "STRESS" /\ FGt(m.emotion_confidence, Tenths[7])
    THEN FMin(F1, FAdd(combined, Tenths[2]))
    ELSE combined

complexity_added(combined, m) ==
    IF FGt(m.pose_complexity_score, Tenths[7])
    THEN FMin(F1, FAdd(combined, Tenths[1]))
    ELSE combined

roll_raised(combined, m) ==
    IF FGt(FAbs(m.head_roll), FromInt(25)) /\ FGt(m.gaze_zone_duration, F1)
    THEN FMax(combined, Tenths[7])
    ELSE combined

Mut_roll_before_additions(m) ==
    complexity_added(stress_added(roll_raised(blended(m), m), m), m)

\* combined_risk when the thresholds are tested
combined_risk(m) ==
    roll_raised(complexity_added(stress_added(blended(m), m), m), m)

Mut_level_inclusive(combined) ==
    IF FCmp(combined, Tenths[8]) >= 0 THEN "CRITICAL"
    ELSE IF FCmp(combined, Tenths[6]) >= 0 THEN "HIGH"
    ELSE IF FCmp(combined, Tenths[4]) >= 0 THEN "MEDIUM"
    ELSE IF FCmp(combined, Tenths[2]) >= 0 THEN "LOW"
    ELSE "SAFE"

risk_level(combined) ==
    IF FGt(combined, Tenths[8]) THEN "CRITICAL"
    ELSE IF FGt(combined, Tenths[6]) THEN "HIGH"
    ELSE IF FGt(combined, Tenths[4]) THEN "MEDIUM"
    ELSE IF FGt(combined, Tenths[2]) THEN "LOW"
    ELSE "SAFE"

_determine_enhanced_overall_risk(m) == risk_level(combined_risk(m))

----------------------------------------------------------------------------
(* analysis/engine.py: _check_enhanced_state_transitions                      *)

\* `if self.metrics.fatigue_risk_score > 0.8`
fatigue_accumulated(m) == FGt(m.fatigue_risk_score, Tenths[8])

\* `elif self.metrics.distraction_risk_score > 0.7`
attention_declined(m) ==
    /\ ~fatigue_accumulated(m)
    /\ FGt(m.distraction_risk_score, Tenths[7])

\* a plausible slip: a higher threshold of the confidence
Mut_stress_stricter(m) ==
    /\ m.emotion_state = "STRESS"
    /\ FGt(m.emotion_confidence, Tenths[8])

\* `if emotion_state == EmotionState.STRESS and emotion_confidence > 0.7`
stress_detected(m) ==
    /\ m.emotion_state = "STRESS"
    /\ FGt(m.emotion_confidence, Tenths[7])

\* `if self.metrics.distraction_objects`: the list is not empty
objects_detected(m) == m.distraction_objects # <<>>

\* `if not any([fatigue > 0.5, distraction > 0.5, predictive > 0.5])`
normal_behavior(m) ==
    ~(\/ FGt(m.fatigue_risk_score, Tenths[5])
      \/ FGt(m.distraction_risk_score, Tenths[5])
      \/ FGt(m.predictive_risk_score, Tenths[5]))

\* the call of handle_event under an `if`
delivered_if(condition, event) == IF condition THEN <<event>> ELSE <<>>

\* the events handed to state_manager.handle_event, in the order of the calls
_check_enhanced_state_transitions(m) ==
    delivered_if(fatigue_accumulated(m), "FATIGUE_ACCUMULATION")
        \o delivered_if(attention_declined(m), "ATTENTION_DECLINE")
        \o delivered_if(stress_detected(m), "EMOTION_STRESS_DETECTED")
        \o delivered_if(objects_detected(m), "DISTRACTION_OBJECT_DETECTED")
        \o delivered_if(normal_behavior(m), "NORMAL_BEHAVIOR")

----------------------------------------------------------------------------
(* analysis/engine.py and app.py: one processing cycle, one statement at a    *)
(* time. cycle.pc is the statement the cycle executes next. The tasks of a    *)
(* cycle contain no await, so the event loop runs each of them to completion  *)
(* in the order of their creation (face, pose, hand) once the cycle awaits.   *)

\* the main loop is between two cycles; done counts the cycles it has started
\* and finished holds the parts of the cycle that have run to their end
Idle(done) == [pc |-> "idle", done |-> done, error |-> FALSE, finished |-> {}]

\* the part of process_and_annotate_frame a statement belongs to: one of the
\* three tasks, the object analysis, the gather, or one of the three calls
\* that follow it
Part(pc) ==
    CASE pc \in {"face_task", "face_yawn", "face_blink", "face_identify", "face_head_pose"}
            -> "face"
      [] pc = "pose_task" -> "pose"
      [] pc = "hand_task" -> "hand"
      [] pc = "object" -> "object"
      [] pc = "gather" -> "gather"
      [] pc = "fusion" -> "fusion"
      [] pc = "predictive" -> "predictive"
      [] pc \in {"check_fatigue", "check_stress", "check_object", "check_normal", "return"}
            -> "update"
      [] OTHER -> "none"

\* AdvancedMetrics(): the values of the fields before the first cycle
InitialMetrics == [driver_identity |-> "initial", driver_confidence |-> "initial"]

\* driver_info[field] of the dict that identify_driver returned
Field(driver_info, field) == <<driver_info, field>>

\* the cycle is at statement pc (and the main loop has not ended)
At(pc) == cycle.pc = pc /\ main_loop = "running"

\* the cycle has executed the statement it was at and is at statement pc
Advance(pc) ==
    [cycle EXCEPT !.pc = pc,
                  !.finished = IF Part(pc) = Part(cycle.pc) THEN @ ELSE @ \cup {Part(cycle.pc)}]

\* a statement that changes only fields of the engine the model does not follow
cycle_step(pc, next_pc) ==
    /\ At(pc)
    /\ cycle' = Advance(next_pc)
    /\ UNCHANGED <<now, smVars, syncVars, cbVars, counterVars, cacheVars,
                   metrics, main_loop, inputVars, applied>>

\* a statement that calls handle_event(event) when its condition holds
cycle_event(pc, next_pc, condition, event) ==
    /\ At(pc)
    /\ IF condition
       THEN handle_event(event)
       ELSE UNCHANGED <<now, smVars, exceptSM>>
    /\ cycle' = Advance(next_pc)
    /\ UNCHANGED <<metrics, main_loop, inputVars, applied>>

\* a statement that calls add_event(event_type) when its condition holds
cycle_count(pc, next_pc, condition, event_type) ==
    /\ At(pc)
    /\ IF condition
       THEN add_event(event_type)
       ELSE UNCHANGED <<now, counterVars, exceptCounter>>
    /\ cycle' = Advance(next_pc)
    /\ UNCHANGED <<metrics, main_loop, inputVars, applied>>

\* the conditions under which a cycle delivers an event are inputs: they hold
\* or not while the history is short, and do not hold afterwards
Conditions == IF Len(state_history) < CycleInputs THEN BOOLEAN ELSE {FALSE}

\* likewise the conditions under which a cycle counts an event of a type
Counted(type) == IF Len(added[type]) < CycleInputs THEN BOOLEAN ELSE {FALSE}

\* main_async_loop: the bundle taken from the queue is handed to
\* process_and_annotate_frame, which creates the three tasks and awaits
Mut_object_before_tasks ==
    /\ At("idle")
    /\ cycle.done < Cardinality(consumed)
    /\ cycle' = [cycle EXCEPT !.pc = "object", !.done = @ + 1, !.finished = {}]
    /\ UNCHANGED <<now, smVars, syncVars, cbVars, counterVars, cacheVars,
                   metrics, main_loop, inputVars, applied>>

process_and_annotate_frame ==
    /\ At("idle")
    /\ cycle.done < Cardinality(consumed)
    /\ cycle' = [cycle EXCEPT !.pc = "face_task", !.done = @ + 1, !.finished = {}]
    /\ UNCHANGED <<now, smVars, syncVars, cbVars, counterVars, cacheVars,
                   metrics, main_loop, inputVars, applied>>

\* _process_face_data_async: no face, or face landmarks with or without
\* blendshapes
face_task ==
    \E next_pc \in {"pose_task", "face_yawn", "face_identify"} :
        cycle_step("face_task", next_pc)

\* _analyze_blendshapes: yawn_score > 0.6
face_yawn == \E yawn \in Counted("yawns") : cycle_count("face_yawn", "face_blink", yawn, "yawns")

\* _analyze_blendshapes: mean eye closure > 0.8
face_blink == \E blink \in Counted("blinks") : cycle_count("face_blink", "face_identify", blink, "blinks")

\* driver_info = self._cached_identify_driver(landmarks_tuple) returns, and
\* the two fields of the snapshot are set from it
face_identify(landmarks_tuple, info, inclusive) ==
    /\ At("face_identify")
    /\ _cached_identify_driver(landmarks_tuple, info, inclusive)
    /\ metrics' = [metrics EXCEPT
                        !.driver_identity = Field(last_call'.value, "driver_id"),
                        !.driver_confidence = Field(last_call'.value, "confidence")]
    /\ cycle' = Advance("face_head_pose")
    /\ UNCHANGED <<main_loop, inputVars, applied>>

\* the key is not cached and identify_driver raises: nothing is cached, the
\* exception leaves _cached_identify_driver and _process_face_data_async (no
\* try statement in either) and is kept in the face task
face_identify_raises(landmarks_tuple, inclusive) ==
    /\ At("face_identify")
    /\ ~cache_hit(identity_cache, landmarks_tuple, inclusive)
    /\ cycle' = [Advance("pose_task") EXCEPT !.error = TRUE]
    /\ UNCHANGED <<now, smVars, syncVars, cbVars, counterVars, cacheVars,
                   metrics, main_loop, inputVars, applied>>

\* _analyze_enhanced_head_pose, if there is a transformation matrix
face_head_pose == cycle_step("face_head_pose", "pose_task")

\* _process_pose_data_async
pose_task == cycle_step("pose_task", "hand_task")

\* _process_hand_data_async; hand_positions = await hand_task
hand_task == cycle_step("hand_task", "object")

\* await self._process_object_data_async(...)
object_data == cycle_step("object", "gather")

\* await asyncio.gather(face_task, pose_task): the exception kept in a task is
\* raised here, leaves process_and_annotate_frame and reaches the except
\* clause of main_async_loop, which logs it; the loop is left and the
\* finally clause cleans up
gather ==
    /\ At("gather")
    /\ cycle' = Advance(IF cycle.error THEN "aborted" ELSE "fusion")
    /\ main_loop' = IF cycle.error THEN "ended" ELSE main_loop
    /\ UNCHANGED <<now, smVars, syncVars, cbVars, counterVars, cacheVars,
                   metrics, inputVars, applied>>

\* _perform_multimodal_fusion_analysis
fusion == cycle_step("fusion", "predictive")

\* _run_predictive_analysis: alert_level in ["high", "critical"]
predictive ==
    \E alert \in Conditions :
        cycle_event("predictive", "check_fatigue", alert, "PREDICTIVE_RISK_HIGH")

\* _check_enhanced_state_transitions: fatigue > 0.8, elif distraction > 0.7
check_fatigue ==
    \E high \in Conditions, event \in {"FATIGUE_ACCUMULATION", "ATTENTION_DECLINE"} :
        cycle_event("check_fatigue", "check_stress", high, event)

\* _check_enhanced_state_transitions: stress with confidence > 0.7
check_stress ==
    \E stress \in Conditions :
        cycle_event("check_stress", "check_object", stress, "EMOTION_STRESS_DETECTED")

\* _check_enhanced_state_transitions: distraction_objects is not empty
check_object ==
    \E objects \in Conditions :
        cycle_event("check_object", "check_normal", objects, "DISTRACTION_OBJECT_DETECTED")

\* _check_enhanced_state_transitions: no score above 0.5
check_normal ==
    \E normal \in Conditions :
        cycle_event("check_normal", "return", normal, "NORMAL_BEHAVIOR")

\* the rest of _update_driver_state and of process_and_annotate_frame, and
\* the rest of the iteration of main_async_loop
cycle_return ==
    /\ At("return")
    /\ cycle' = Idle(cycle.done)
    /\ UNCHANGED <<now, smVars, syncVars, cbVars, counterVars, cacheVars,
                   metrics, main_loop, inputVars, applied>>

\* the metrics hold the scores of the frame
Scored == "fatigue_risk_score" \in DOMAIN metrics

\* a cycle has come to _check_enhanced_state_transitions, the metrics being
\* those of the cycle before; the cycles are not counted here
steady_cycle ==
    /\ At("idle")
    /\ Scored
    /\ cycle' = [cycle EXCEPT !.pc = "check_fatigue", !.finished = {}]
    /\ UNCHANGED <<now, smVars, syncVars, cbVars, counterVars, cacheVars,
                   metrics, main_loop, inputVars, applied>>

\* _check_enhanced_state_transitions: fatigue > 0.8, elif distraction > 0.7
steady_fatigue ==
    /\ Scored
    /\ cycle_event("check_fatigue", "check_stress",
                   fatigue_accumulated(metrics) \/ attention_declined(metrics),
                   IF fatigue_accumulated(metrics)
                   THEN "FATIGUE_ACCUMULATION" ELSE "ATTENTION_DECLINE")

steady_stress ==
    /\ Scored
    /\ cycle_event("check_stress", "check_object", stress_detected(metrics),
                   "EMOTION_STRESS_DETECTED")

\* a plausible slip: a detected object is taken for a confirmed phone usage
Mut_object_phone_confirmed ==
    /\ Scored
    /\ cycle_event("check_object", "check_normal", objects_detected(metrics),
                   "PHONE_USAGE_CONFIRMED")

steady_object ==
    /\ Scored
    /\ cycle_event("check_object", "check_normal", objects_detected(metrics),
                   "DISTRACTION_OBJECT_DETECTED")

steady_normal ==
    /\ Scored
    /\ cycle_event("check_normal", "return", normal_behavior(metrics),
                   "NORMAL_BEHAVIOR")

\* latest_results of the cycle: every cycle stores or pops each of the keys
\* face, pose, hand and object before the fusion reads them
latest_results == cycle.latest_results

\* the emotion fields have been written by an earlier frame (the defaults of
\* AdvancedMetrics are not in the sources)
EmotionKnown == "emotion_state" \in DOMAIN metrics

\* process_and_annotate_frame is called with the results of a frame
snapshot_frame ==
    /\ At("idle")
    /\ cycle.done < SnapshotCycles
    /\ cycle' = [pc |-> "face_task", done |-> cycle.done + 1, error |-> FALSE,
                 finished |-> {}, latest_results |-> {}]
    /\ UNCHANGED <<now, smVars, syncVars, cbVars, counterVars, cacheVars,
                   metrics, main_loop, inputVars, applied>>

\* the key of a modality is stored in latest_results or popped from it
results_after(modality, present) ==
    IF present THEN latest_results \cup {modality} ELSE latest_results \ {modality}

\* a statement of the cycle that writes latest_results and the metrics
snapshot_step(pc, next_pc, modality, present, written) ==
    /\ At(pc)
    /\ cycle' = [Advance(next_pc) EXCEPT !.latest_results = results_after(modality, present)]
    /\ metrics' = written @@ metrics
    /\ UNCHANGED <<now, smVars, syncVars, cbVars, counterVars, cacheVars,
                   main_loop, inputVars, applied>>

\* the fields _process_face_data_async writes from detect_drowsiness
drowsiness_fields(drowsiness) ==
    [enhanced_ear |-> drowsiness, perclos |-> drowsiness,
     temporal_attention_score |-> drowsiness]

\* the fields it writes from analyze_emotion, `if face_result.face_blendshapes`
emotion_fields(emotion) ==
    IF emotion = <<>> THEN EmptyDict
    ELSE [emotion_state |-> emotion[1], emotion_confidence |-> emotion[2],
          arousal_level |-> emotion[3]]

\* _process_face_data_async: without a face it pops the key and returns
snapshot_face(face_result) ==
    IF ~face_result.face_landmarks
    THEN EmotionKnown /\ snapshot_step("face_task", "pose_task", "face", FALSE, EmptyDict)
    ELSE /\ face_result.emotion = <<>> => EmotionKnown
         /\ snapshot_step("face_task", "pose_task", "face", TRUE,
                          drowsiness_fields(face_result.drowsiness)
                              @@ emotion_fields(face_result.emotion))

\* _process_pose_data_async
snapshot_pose(present) == snapshot_step("pose_task", "hand_task", "pose", present, EmptyDict)

\* _process_hand_data_async
snapshot_hand(present) == snapshot_step("hand_task", "object", "hand", present, EmptyDict)

\* `any("휴대폰" in obj for obj in self.metrics.distraction_objects)`: the
\* description of a phone is "phone" here
phone_detected(objects) == \E i \in 1..Len(objects) : objects[i] = "phone"

\* _process_object_data_async: without detections it pops the key, clears
\* phone_detected and distraction_objects and returns
snapshot_object(object_result) ==
    IF ~object_result.detections
    THEN snapshot_step("object", "fusion", "object", FALSE,
                       [phone_detected |-> FALSE, distraction_objects |-> <<>>])
    ELSE snapshot_step("object", "fusion", "object", TRUE,
                       [phone_detected |-> phone_detected(object_result.objects),
                        distraction_objects |-> object_result.objects])

\* the dicts of _perform_multimodal_fusion_analysis; the gaze is on the road
\* (deviation 0, focus 1), no head nod is counted and both hands of a hand
\* result are on the wheel
face_dict ==
    FaceData("face" \in latest_results, metrics.perclos, metrics.enhanced_ear, metrics.temporal_attention_score, F0, F1)

pose_dict == PoseData("pose" \in latest_results, F0)

hand_dict ==
    HandData("hand" \in latest_results, IF "hand" \in latest_results THEN F1 ELSE F0)

object_dict ==
    ObjectData("object" \in latest_results,
               FDiv(FromInt(Len(metrics.distraction_objects)), FromInt(5)))

emotion_dict ==
    EmotionData(metrics.emotion_state, metrics.emotion_confidence, metrics.arousal_level)

_perform_multimodal_fusion_analysis ==
    /\ At("fusion")
    /\ cycle' = Advance("predictive")
    /\ metrics' =
            [fatigue_risk_score |->
                fuse_drowsiness_signals(face_dict, pose_dict, emotion_dict),
             distraction_risk_score |->
                fuse_distraction_signals(face_dict, hand_dict, object_dict, emotion_dict)]
                @@ metrics
    /\ UNCHANGED <<now, smVars, syncVars, cbVars, counterVars, cacheVars,
                   main_loop, inputVars, applied>>

\* _run_predictive_analysis: predict_risk gives the probability and the level
_run_predictive_analysis(alert) ==
    /\ At("predictive")
    /\ IF alert
       THEN handle_event("PREDICTIVE_RISK_HIGH")
       ELSE UNCHANGED <<now, smVars, exceptSM>>
    /\ cycle' = Advance("check_fatigue")
    /\ metrics' = [predictive_risk_score |-> IF alert THEN Tenths[9] ELSE Tenths[4]]
                        @@ metrics
    /\ UNCHANGED <<main_loop, inputVars, applied>>

\* _run_predictive_analysis: alert_level in ["high", "critical"]; predict_risk
\* gives the level
engine_predictive ==
    \E alert \in BOOLEAN :
        cycle_event("predictive", "check_fatigue", alert, "PREDICTIVE_RISK_HIGH")

----------------------------------------------------------------------------
(* io_handler/video_input.py and app.py: the end of the input, the keys and  *)
(* the head of an iteration of main_async_loop                              *)

\* _reader_thread: the capture is closed, or a read fails and no video is left
_reader_thread ==
    /\ ~stopped
    /\ stopped' = TRUE
    /\ UNCHANGED <<now, smVars, syncVars, cbVars, counterVars, cacheVars,
                   cycle, metrics, main_loop, paused, last_key, applied>>

is_running == ~stopped

\* main_async_loop is at the head of an iteration: no cycle is under way and
\* every bundle taken has had its cycle
LoopHead == At("idle") /\ cycle.done = Cardinality(consumed)

\* if not self.video_input_manager.is_running() and not
\* self.analysis_engine.processed_data_queue: break
loop_break ==
    /\ LoopHead
    /\ ~is_running /\ processed_data_queue = <<>>
    /\ main_loop' = "ended"
    /\ UNCHANGED <<now, smVars, syncVars, cbVars, counterVars, cacheVars,
                   cycle, metrics, inputVars, applied>>

\* the keys that change the course of the loop: quit and pause
Keys == {"q", " "}

\* _handle_keyboard_input(cv2.waitKey(...)), at the end of an iteration or in
\* a paused one: False ends the loop
_handle_keyboard_input(pressed) ==
    /\ LoopHead
    /\ main_loop' = IF pressed = "q" THEN "ended" ELSE main_loop
    /\ paused' = IF pressed = " " THEN ~paused ELSE paused
    /\ last_key' = pressed
    /\ UNCHANGED <<now, smVars, syncVars, cbVars, counterVars, cacheVars,
                   cycle, metrics, stopped, applied>>

----------------------------------------------------------------------------
(* The clock *)

Tick(limit) ==
    /\ now < limit
    /\ now' = now + 1
    /\ UNCHANGED <<smVars, exceptSM, cycleVars>>

----------------------------------------------------------------------------
(* Specifications *)

Init ==
    /\ now = 0
    /\ current_state = "SAFE"
    /\ state_start_time = 0
    /\ state_history = <<>>
    /\ last_event = "NONE"
    /\ frame_buffer = EmptyDict
    /\ result_buffer = EmptyDict
    /\ processed_data_queue = <<>>
    /\ submitted = {}
    /\ delivered = {}
    /\ emitted = {}
    /\ dropped = {}
    /\ consumed = {}
    /\ cb = [m \in Modalities |-> Returned]
    /\ raised = {}
    /\ event_buffers = [type \in EventTypes |-> <<>>]
    /\ added = [type \in EventTypes |-> <<>>]
    /\ identity_cache = <<>>
    /\ last_call = NoCall
    /\ watched = NotSeen
    /\ keys_used = 0
    /\ used = <<>>
    /\ cycle = Idle(0)
    /\ metrics = InitialMetrics
    /\ main_loop = "running"
    /\ stopped = FALSE
    /\ paused = FALSE
    /\ last_key = "none"
    /\ applied = NotApplied

SMTick == Tick(SMClock)

SMEvent ==
    \E event \in AnalysisEvents :
        /\ Len(state_history) < SMHist
        /\ handle_event(event)
        /\ UNCHANGED cycleVars

NextSM == SMTick \/ SMEvent

SpecSM == Init /\ [][NextSM]_vars

HoldEvents ==
    {"NORMAL_BEHAVIOR", "FATIGUE_ACCUMULATION", "EMOTION_STRESS_DETECTED", "OTHER_EVENT"}

HoldTick == Tick(HoldClock)

HoldEvent ==
    \E event \in HoldEvents :
        /\ Len(state_history) < HoldHist
        /\ handle_event(event)
        /\ UNCHANGED cycleVars

NextHold == HoldTick \/ HoldEvent

SpecHold == Init /\ [][NextHold]_vars

\* the results the detectors deliver
Results == {"r"}

\* a detector answers a submitted frame once per modality
Undelivered(t, modality) == <<t, modality>> \notin delivered

SyncTick == Tick(SyncClock)

\* capture times are distinct
SyncRunTasks ==
    /\ now \notin submitted
    /\ Cardinality(submitted) < SyncFrames
    /\ run_tasks

SyncFace ==
    \E t \in submitted, r \in Results :
        Undelivered(t, "face") /\ on_face_result(r, t)

SyncPose ==
    \E t \in submitted, r \in Results :
        Undelivered(t, "pose") /\ on_pose_result(r, t)

SyncHand ==
    \E t \in submitted, r \in Results :
        Undelivered(t, "hand") /\ on_hand_result(r, t)

SyncObject ==
    \E t \in submitted, r \in Results :
        Undelivered(t, "object") /\ on_object_result(r, t)

NextSync == SyncTick \/ SyncRunTasks \/ SyncFace \/ SyncPose \/ SyncHand \/ SyncObject

SpecSync == Init /\ [][NextSync]_vars

PruneTick == Tick(PruneClock)

PruneRunTasks ==
    /\ now \notin submitted
    /\ Cardinality(submitted) < PruneFrames
    /\ run_tasks

NextPrune == PruneTick \/ PruneRunTasks \/ SyncFace \/ SyncPose \/ SyncHand

SpecPrune == Init /\ [][NextPrune]_vars

QueueTick == Tick(QueueClock)

\* the detectors have answered the previous frame before the next is captured
QueueRunTasks ==
    /\ now \notin submitted
    /\ DOMAIN frame_buffer = {}
    /\ run_tasks

QueueFace ==
    \E t \in DOMAIN frame_buffer, r \in Results :
        Undelivered(t, "face") /\ on_face_result(r, t)

QueuePose ==
    \E t \in DOMAIN frame_buffer, r \in Results :
        Undelivered(t, "pose") /\ on_pose_result(r, t)

NextQueue == QueueTick \/ QueueRunTasks \/ QueueFace \/ QueuePose \/ popleft

SpecQueue == Init /\ [][NextQueue]_vars

StallTick == Tick(StallClock)

StallRunTasks ==
    /\ now \notin submitted
    /\ Cardinality(submitted) < StallFrames
    /\ run_tasks

\* the pose detector stops answering: frames captured from PoseStopsAt on get
\* no pose result
StallPose ==
    \E t \in submitted, r \in Results :
        /\ t < PoseStopsAt
        /\ Undelivered(t, "pose")
        /\ on_pose_result(r, t)

NextStall == StallTick \/ StallRunTasks \/ SyncFace \/ StallPose \/ SyncHand

\* the clock, the camera and the detectors that still answer keep running
SpecStall == Init /\ [][NextStall]_vars /\ WF_vars(NextStall)

RepeatTick == Tick(RepeatClock)

RepeatRunTasks ==
    /\ now \notin submitted
    /\ Cardinality(submitted) < RepeatFrames
    /\ run_tasks

\* a callback may be called again for a timestamp it has already answered
RepeatFace == \E t \in submitted, r \in Results : on_face_result(r, t)

RepeatPose == \E t \in submitted, r \in Results : on_pose_result(r, t)

NextRepeat == RepeatTick \/ RepeatRunTasks \/ RepeatFace \/ RepeatPose \/ popleft

SpecRepeat == Init /\ [][NextRepeat]_vars

\* the detector threads whose callbacks run concurrently
RaceModalities == {"face", "pose"}

RaceTick == Tick(RaceClock)

RaceRunTasks ==
    /\ now \notin submitted
    /\ Cardinality(submitted) < RaceFrames
    /\ run_tasks

\* a detector thread enters its callback for a frame it has not answered
RaceCall ==
    \E m \in RaceModalities, t \in submitted, r \in Results :
        Undelivered(t, m) /\ cb_if_absent(m, r, t)

\* some thread inside a callback executes its next statement
RaceStep == \E m \in RaceModalities : cb_step(m)

NextRace == RaceTick \/ RaceRunTasks \/ RaceCall \/ RaceStep

SpecRace == Init /\ [][NextRace]_vars

\* the hand detector thread enters its callback
RaceCallHand ==
    \E t \in submitted, r \in Results :
        /\ t < HandStopsAt
        /\ Undelivered(t, "hand")
        /\ cb_if_absent("hand", r, t)

RaceStepHand == cb_step("hand")

NextRaceAll == NextRace \/ RaceCallHand \/ RaceStepHand

SpecRaceAll == Init /\ [][NextRaceAll]_vars

CounterTick ==
    /\ now + CounterStride <= CounterClock
    /\ now' = now + CounterStride
    /\ UNCHANGED <<exceptCounter, counterVars, cycleVars>>

\* events arrive at any rate: any number of add_event calls at one time
CounterAdd ==
    \E type \in EventTypes :
        /\ now <= CounterAddUntil
        /\ Len(added[type]) < BufferMaxLen[type] + CounterExtra
        /\ \A other \in EventTypes \ {type} : Len(added[other]) <= CounterFew
        /\ add_event(type)
        /\ UNCHANGED cycleVars

NextCounter == CounterTick \/ CounterAdd

SpecCounter == Init /\ [][NextCounter]_vars

CacheTick ==
    /\ now + CacheStride <= CacheClock
    /\ now' = now + CacheStride
    /\ UNCHANGED <<exceptCache, cacheVars, cycleVars>>

\* the library's two readings of the end of a time-to-live differ only for
\* an entry that is at that very moment
EndOfLife == IF \E i \in 1..Len(identity_cache) : identity_cache[i].expires = now
             THEN BOOLEAN ELSE {TRUE}

\* what identify_driver may return matters only when it is called
Computable(key, inclusive) ==
    IF cache_hit(identity_cache, key, inclusive) THEN {"driver_a"} ELSE DriverInfos

\* keys are named in the order of their first lookup
CacheLookup ==
    \E key \in 1..(keys_used + 1), inclusive \in EndOfLife :
        /\ key <= CacheKeys
        /\ key <= CacheRepeat \/ key = keys_used + 1
        /\ \E info \in Computable(key, inclusive) :
                /\ _cached_identify_driver(key, info, inclusive)
                /\ UNCHANGED cycleVars

NextCache == CacheTick \/ CacheLookup

SpecCache == Init /\ [][NextCache]_vars

CycleTick == Tick(CycleClock)

\* main_async_loop calls run_tasks between two cycles; the detectors have
\* answered the previous frame before the next is captured
CycleRunTasks ==
    /\ At("idle")
    /\ now \notin submitted
    /\ DOMAIN frame_buffer = {}
    /\ run_tasks

Mut_take_while_active ==
    /\ main_loop = "running"
    /\ cycle.pc \in {"idle", "fusion"}
    /\ popleft

\* main_async_loop takes a bundle when no cycle is under way
CycleTake ==
    /\ At("idle")
    /\ cycle.done = Cardinality(consumed)
    /\ popleft

\* keys are named in the order of their first lookup
CycleIdentify ==
    \E key \in 1..(keys_used + 1), inclusive \in EndOfLife :
        \E info \in Computable(key, inclusive) :
            face_identify(key, info, inclusive)

CycleIdentifyRaises ==
    \E key \in 1..(keys_used + 1), inclusive \in EndOfLife :
        face_identify_raises(key, inclusive)

NextCycle ==
    \/ CycleTick \/ CycleRunTasks \/ QueueFace \/ QueuePose \/ CycleTake
    \/ process_and_annotate_frame \/ face_task \/ face_yawn \/ face_blink
    \/ CycleIdentify \/ CycleIdentifyRaises \/ face_head_pose
    \/ pose_task \/ hand_task \/ object_data \/ gather \/ fusion
    \/ predictive \/ check_fatigue \/ check_stress \/ check_object
    \/ check_normal \/ cycle_return

SpecCycle == Init /\ [][NextCycle]_vars

\* the cycles of the frames captured at one time
NextOrder ==
    \/ CycleRunTasks \/ QueueFace \/ QueuePose \/ CycleTake
    \/ process_and_annotate_frame \/ face_task \/ face_yawn \/ face_blink
    \/ CycleIdentify \/ CycleIdentifyRaises \/ face_head_pose
    \/ pose_task \/ hand_task \/ object_data \/ gather \/ fusion
    \/ predictive \/ check_fatigue \/ check_stress \/ check_object
    \/ check_normal \/ cycle_return

SpecOrder == Init /\ [][NextOrder]_vars

LoopTick == Tick(LoopClock)

\* _process_face_data_async returns at once: no face in the frame
face_absent == cycle_step("face_task", "pose_task")

\* the cycles of frames in which no face is found
NextLoop ==
    \/ LoopTick \/ CycleRunTasks \/ QueueFace \/ QueuePose \/ CycleTake
    \/ process_and_annotate_frame \/ face_absent
    \/ pose_task \/ hand_task \/ object_data \/ gather \/ fusion
    \/ predictive \/ check_fatigue \/ check_stress \/ check_object
    \/ check_normal \/ cycle_return

SpecLoop == Init /\ [][NextLoop]_vars

\* the first events of a long run: any of these, at any time
HistoryEvents == {"FATIGUE_ACCUMULATION", "PHONE_USAGE_CONFIRMED", "OTHER_EVENT"}

HistoryTick ==
    /\ Len(state_history) < HistoryFree
    /\ Tick(HistoryClock)

HistoryEvent ==
    \E event \in HistoryEvents :
        /\ Len(state_history) < HistoryFree
        /\ handle_event(event)
        /\ UNCHANGED cycleVars

\* the rest of the run: fatigue accumulates without end, every event of it
\* changes the state
HistorySteady ==
    \E event \in {"FATIGUE_ACCUMULATION", "OTHER_EVENT"} :
        /\ Len(state_history) >= HistoryFree
        /\ handle_event(event)
        /\ UNCHANGED cycleVars

NextHistory == HistoryTick \/ HistoryEvent \/ HistorySteady

SpecHistory == Init /\ [][NextHistory]_vars

\* the scores on the grid
Scores == {Dec(k, FusionGrid) : k \in 0..FusionGrid}

Extremes == {F0, F1}

\* an unavailable modality keeps scores of an earlier cycle: here the highest
DrowsyFaces ==
    {FaceData(FALSE, F1, F1, F1, F1, F1)}
        \cup {FaceData(TRUE, perclos, x, x, F0, F1) : perclos \in Scores, x \in Extremes}

DistractedFaces ==
    {FaceData(FALSE, F1, F1, F1, F1, F1), FaceData(TRUE, F0, F0, F0, F0, Dec(1, FusionGrid))}
        \cup {FaceData(TRUE, F0, F0, F0, gaze, F1) : gaze \in Scores}

Poses == {PoseData(FALSE, F1)} \cup {PoseData(TRUE, score) : score \in Scores}

\* hands_on_wheel / 2.0
Hands ==
    {HandData(FALSE, F0)}
        \cup {HandData(TRUE, FDiv(FromInt(n), FromInt(2))) : n \in 0..MaxHands}

\* len(self.metrics.distraction_objects) / 5.0
Objects ==
    {ObjectData(FALSE, F1)}
        \cup {ObjectData(TRUE, FDiv(FromInt(n), FromInt(5))) : n \in 0..MaxObjects}

FatigueEmotions ==
    {EmotionData("FATIGUE", confidence, Tenths[5]) : confidence \in Scores}
        \cup {EmotionData("NEUTRAL", F1, arousal) : arousal \in Scores}

StressEmotions ==
    {EmotionData("STRESS", confidence, Tenths[5]) : confidence \in Scores}
        \cup {EmotionData("ANGER", F1, Tenths[5]), EmotionData("NEUTRAL", F1, Tenths[5])}

\* the scoring functions keep no state: each call starts from its arguments
Called == applied # NotApplied

ApplyDrowsiness ==
    \E face_data \in DrowsyFaces, pose_data \in Poses, emotion_data \in FatigueEmotions :
        /\ ~Called
        /\ applied' =
                [fn |-> "fuse_drowsiness_signals", face_data |-> face_data,
                 pose_data |-> pose_data, emotion_data |-> emotion_data,
                 result |-> fuse_drowsiness_signals(face_data, pose_data, emotion_data)]
        /\ UNCHANGED <<now, smVars, syncVars, cbVars, counterVars, cacheVars,
                       cycle, metrics, main_loop, inputVars>>

ApplyDistraction ==
    \E face_data \in DistractedFaces, hand_data \in Hands, distractions \in Objects,
       emotion_data \in StressEmotions :
        /\ ~Called
        /\ applied' =
                [fn |-> "fuse_distraction_signals", face_data |-> face_data,
                 hand_data |-> hand_data, object_data |-> distractions,
                 emotion_data |-> emotion_data,
                 result |-> fuse_distraction_signals(face_data, hand_data,
                                                     distractions, emotion_data)]
        /\ UNCHANGED <<now, smVars, syncVars, cbVars, counterVars, cacheVars,
                       cycle, metrics, main_loop, inputVars>>

\* the call returns and its arguments and result are forgotten
ScoreReturn ==
    /\ Called
    /\ applied' = NotApplied
    /\ UNCHANGED <<now, smVars, syncVars, cbVars, counterVars, cacheVars,
                   cycle, metrics, main_loop, inputVars>>

NextFusion == ApplyDrowsiness \/ ApplyDistraction \/ ScoreReturn

SpecFusion == Init /\ [][NextFusion]_vars

\* the face-only scenario has a fatigue of 0.45
FatigueScores == {Dec(k, RiskGrid) : k \in 0..RiskGrid} \cup {Hundredths[45]}

DistractionScores == {F0, Tenths[2]}

PredictiveScores == {F0, Tenths[2], Tenths[5], Tenths[6], F1}

\* emotion_state and emotion_confidence
RiskEmotions == {<<"STRESS", Tenths[8]>>, <<"STRESS", Tenths[7]>>, <<"NEUTRAL", Tenths[8]>>}

ComplexityScores == {Tenths[7], Tenths[8]}

\* head_roll in degrees and gaze_zone_duration in seconds
HeadPoses ==
    {<<FromInt(30), FromInt(2)>>, <<FromInt(-30), FromInt(2)>>,
     <<FromInt(25), FromInt(2)>>, <<FromInt(30), F1>>}

RiskMetrics(fatigue, distraction, predicted, emotion, complexity, head) ==
    [fatigue_risk_score |-> fatigue, distraction_risk_score |-> distraction,
     predictive_risk_score |-> predicted, emotion_state |-> emotion[1],
     emotion_confidence |-> emotion[2], pose_complexity_score |-> complexity,
     head_roll |-> head[1], gaze_zone_duration |-> head[2]]

RiskApplied(m) ==
    [fn |-> "_determine_enhanced_overall_risk", metrics |-> m,
     combined_risk |-> combined_risk(m),
     result |-> _determine_enhanced_overall_risk(m)]

ApplyRisk ==
    \E fatigue \in FatigueScores, distraction \in DistractionScores,
       predicted \in PredictiveScores, emotion \in RiskEmotions,
       complexity \in ComplexityScores, head \in HeadPoses :
        /\ ~Called
        /\ applied' = RiskApplied(RiskMetrics(fatigue, distraction, predicted,
                                              emotion, complexity, head))
        /\ UNCHANGED <<now, smVars, syncVars, cbVars, counterVars, cacheVars,
                       cycle, metrics, main_loop, inputVars>>

NextRisk == ApplyRisk \/ ScoreReturn

SpecRisk == Init /\ [][NextRisk]_vars

\* the thresholds of _check_enhanced_state_transitions, in tenths
EventThresholds == {5, 7, 8}

\* the scores around the thresholds
EventScores ==
    {Tenths[k] : k \in {n \in 0..10 : \E th \in EventThresholds :
                                        n - th \in (0 - EventSpan)..EventSpan}}

\* metrics.distraction_objects
DetectedObjects == {<<>>, <<"cell phone">>}

EventMetrics(fatigue, distraction, predicted, emotion, objects) ==
    [fatigue_risk_score |-> fatigue, distraction_risk_score |-> distraction,
     predictive_risk_score |-> predicted, emotion_state |-> emotion[1],
     emotion_confidence |-> emotion[2], distraction_objects |-> objects]

ApplyEvents ==
    \E fatigue \in EventScores, distraction \in EventScores,
       predicted \in {Tenths[4], Tenths[5], Tenths[6]}, emotion \in RiskEmotions,
       objects \in DetectedObjects :
        LET m == EventMetrics(fatigue, distraction, predicted, emotion, objects) IN
        /\ ~Called
        /\ applied' = [fn |-> "_check_enhanced_state_transitions", metrics |-> m,
                       result |-> _check_enhanced_state_transitions(m)]
        /\ UNCHANGED <<now, smVars, syncVars, cbVars, counterVars, cacheVars,
                       cycle, metrics, main_loop, inputVars>>

NextEvents == ApplyEvents \/ ScoreReturn

SpecEvents == Init /\ [][NextEvents]_vars

SteadyTick ==
    /\ Len(state_history) < SteadyFree
    /\ Tick(SteadyClock)

\* the scores every cycle of the run finds in the metrics
SteadyScores == {Tenths[4], Tenths[9]}

\* the metrics of the first frame; every later frame gives the same
SteadyMetrics ==
    \E fatigue \in SteadyScores, distraction \in SteadyScores,
       emotion \in {<<"STRESS", Tenths[8]>>, <<"NEUTRAL", Tenths[8]>>},
       objects \in DetectedObjects :
        /\ At("idle")
        /\ ~Scored
        /\ metrics' = EventMetrics(fatigue, distraction, Tenths[4], emotion, objects)
                            @@ metrics
        /\ UNCHANGED <<now, smVars, syncVars, cbVars, counterVars, cacheVars,
                       cycle, main_loop, inputVars, applied>>

NextSteady ==
    \/ SteadyTick \/ SteadyMetrics \/ steady_cycle \/ steady_fatigue
    \/ steady_stress \/ steady_object \/ steady_normal \/ cycle_return

\* more than the hold time of NORMAL_BEHAVIOR passes between two frames
engine_wait ==
    /\ At("idle")
    /\ now < EngineClock
    /\ now' = now + NormalHoldSec + 1
    /\ UNCHANGED <<smVars, exceptSM, cycleVars>>

\* the cycle of a frame has written its metrics and comes to
\* _run_predictive_analysis; the cycles are not counted here
engine_cycle ==
    \E fatigue \in SteadyScores, distraction \in SteadyScores,
       emotion \in {<<"STRESS", Tenths[8]>>, <<"NEUTRAL", Tenths[8]>>},
       objects \in DetectedObjects :
        /\ At("idle")
        /\ Len(state_history) < EngineHist
        /\ metrics' = EventMetrics(fatigue, distraction, Tenths[4], emotion, objects)
                            @@ metrics
        /\ cycle' = [cycle EXCEPT !.pc = "predictive", !.finished = {}]
        /\ UNCHANGED <<now, smVars, syncVars, cbVars, counterVars, cacheVars,
                       main_loop, inputVars, applied>>

NextEngine ==
    \/ engine_wait \/ engine_cycle \/ engine_predictive \/ steady_fatigue
    \/ steady_stress \/ steady_object \/ steady_normal \/ cycle_return

SpecEngine == Init /\ [][NextEngine]_vars

\* the faces of the frames: drowsy or not, with the emotion of the blendshapes
\* (an empty emotion: the result has no blendshapes), or without a face
FaceResults ==
    {[face_landmarks |-> TRUE, drowsiness |-> drowsiness, emotion |-> emotion] :
        drowsiness \in {F0, F1},
        emotion \in {<<>>, <<"STRESS", Tenths[8], Tenths[5]>>,
                     <<"NEUTRAL", Tenths[4], Tenths[5]>>}}
        \cup {[face_landmarks |-> FALSE, drowsiness |-> F0, emotion |-> <<>>]}

\* the detections of the frames and the distracting objects found in them
ObjectResults ==
    {[detections |-> FALSE, objects |-> <<>>], [detections |-> TRUE, objects |-> <<"phone">>]}

SnapshotFace == \E face_result \in FaceResults : snapshot_face(face_result)

SnapshotPose == \E present \in BOOLEAN : snapshot_pose(present)

SnapshotHand == \E present \in BOOLEAN : snapshot_hand(present)

SnapshotObject == \E object_result \in ObjectResults : snapshot_object(object_result)

SnapshotPredictive == \E alert \in BOOLEAN : _run_predictive_analysis(alert)

NextSnapshot ==
    \/ snapshot_frame \/ SnapshotFace \/ SnapshotPose \/ SnapshotHand
    \/ SnapshotObject \/ _perform_multimodal_fusion_analysis \/ SnapshotPredictive
    \/ steady_fatigue \/ steady_stress \/ steady_object \/ steady_normal
    \/ cycle_return

SpecSnapshot == Init /\ [][NextSnapshot]_vars

\* the camera keeps delivering frames and the main loop keeps running cycles
SpecSteady == Init /\ [][NextSteady]_vars /\ WF_vars(NextSteady)

DrainTick == Tick(DrainClock)

\* frames are handed to the detectors while the input runs and the loop is
\* not paused
DrainRunTasks == ~paused /\ is_running /\ CycleRunTasks

\* a paused iteration takes no bundle
DrainTake == ~paused /\ CycleTake

DrainKey == \E pressed \in Keys : _handle_keyboard_input(pressed)

\* the statements of main_async_loop and of the cycle it awaits
DrainLoop ==
    \/ loop_break \/ DrainTake
    \/ process_and_annotate_frame \/ face_task \/ face_yawn \/ face_blink
    \/ CycleIdentify \/ CycleIdentifyRaises \/ face_head_pose
    \/ pose_task \/ hand_task \/ object_data \/ gather \/ fusion
    \/ predictive \/ check_fatigue \/ check_stress \/ check_object
    \/ check_normal \/ cycle_return

NextDrain ==
    \/ DrainTick \/ DrainRunTasks \/ QueueFace \/ QueuePose \/ _reader_thread
    \/ DrainKey \/ DrainLoop

\* the event loop runs main_async_loop while it has a statement to execute,
\* and the detector threads deliver their results
SpecDrain ==
    /\ Init /\ [][NextDrain]_vars
    /\ WF_vars(DrainLoop) /\ WF_vars(QueueFace) /\ WF_vars(QueuePose)

----------------------------------------------------------------------------
(* Claims about the state machine *)

LastRecord == state_history[Len(state_history)]

\* the record handle_event writes for a change current_state -> to, caused by event
ExpectedRecord(event, to) ==
    [timestamp |-> now, from_state |-> current_state,
     to_state |-> to, trigger_event |-> event]

\* C2: hysteresis of NORMAL_BEHAVIOR. Delivered while a non-SAFE state has
\* been held for 5 s or less (measured from state_start_time), it changes
\* neither the state, nor state_start_time, nor the history; delivered after
\* more than 5 s it makes the state SAFE, resets state_start_time and appends
\* exactly one record; delivered in SAFE it changes nothing, so repeated
\* deliveries append no further record.
C2_Hysteresis ==
    [][handle_event("NORMAL_BEHAVIOR") =>
        IF current_state # "SAFE" /\ now - state_start_time > 5
        THEN /\ current_state' = "SAFE"
             /\ state_start_time' = now
             /\ state_history' =
                    Append(state_history, ExpectedRecord("NORMAL_BEHAVIOR", "SAFE"))
        ELSE UNCHANGED <<current_state, state_start_time, state_history>>]_vars

\* a non-SAFE state held for more than 5 s was left for SAFE by NORMAL_BEHAVIOR
C2_Witness ==
    /\ Len(state_history) >= 2
    /\ LastRecord.trigger_event = "NORMAL_BEHAVIOR"
    /\ LastRecord.to_state = "SAFE"
    /\ LastRecord.from_state # "SAFE"
    /\ LastRecord.timestamp - state_history[Len(state_history) - 1].timestamp > 5
    /\ current_state = "SAFE"
    /\ last_event = "NORMAL_BEHAVIOR"

\* C3: handle_event appends exactly one record {timestamp, from, to, trigger}
\* and resets state_start_time when, and only when, the state it computes
\* differs from the current one; otherwise history and state_start_time stay.
C3_RecordIffChange ==
    [][\A event \in AnalysisEvents :
        handle_event(event) =>
            IF current_state' # current_state
            THEN /\ state_history' =
                        Append(state_history, ExpectedRecord(event, current_state'))
                 /\ state_start_time' = now
            ELSE /\ state_history' = state_history
                 /\ state_start_time' = state_start_time]_vars

\* after a recorded change a later event left state, history and start time alone
C3_Witness ==
    /\ Len(state_history) >= 1
    /\ last_event # LastRecord.trigger_event
    /\ last_event # "NONE"
    /\ current_state = LastRecord.to_state
    /\ state_start_time = LastRecord.timestamp
    /\ now > state_start_time

\* C4: the four immediate events lead to their fixed state from every state,
\* whatever the time the current state has been held.
C4_Immediate ==
    [][/\ handle_event("PHONE_USAGE_CONFIRMED") => current_state' = "PHONE_USAGE"
       /\ handle_event("MICROSLEEP_PREDICTED") => current_state' = "MICROSLEEP"
       /\ handle_event("EMOTION_STRESS_DETECTED") => current_state' = "EMOTIONAL_STRESS"
       /\ handle_event("PREDICTIVE_RISK_HIGH") => current_state' = "PREDICTIVE_WARNING"]_vars

\* MICROSLEEP_PREDICTED took the machine out of MULTIPLE_RISK
C4_Witness ==
    /\ Len(state_history) >= 1
    /\ LastRecord.trigger_event = "MICROSLEEP_PREDICTED"
    /\ LastRecord.from_state = "MULTIPLE_RISK"
    /\ current_state = "MICROSLEEP"

\* C5: FATIGUE_ACCUMULATION leads to FATIGUE_HIGH exactly from FATIGUE_LOW and
\* to FATIGUE_LOW from every other state, so records of consecutive
\* FATIGUE_ACCUMULATION events alternate FATIGUE_LOW, FATIGUE_HIGH, FATIGUE_LOW.
C5_FatigueToggle ==
    /\ [][handle_event("FATIGUE_ACCUMULATION") =>
            current_state' = IF current_state = "FATIGUE_LOW"
                             THEN "FATIGUE_HIGH" ELSE "FATIGUE_LOW"]_vars
    /\ [](\A i \in 1..(Len(state_history) - 1) :
            (/\ state_history[i].trigger_event = "FATIGUE_ACCUMULATION"
             /\ state_history[i + 1].trigger_event = "FATIGUE_ACCUMULATION")
            => /\ state_history[i].to_state \in {"FATIGUE_LOW", "FATIGUE_HIGH"}
               /\ state_history[i + 1].to_state \in {"FATIGUE_LOW", "FATIGUE_HIGH"}
               /\ state_history[i].to_state # state_history[i + 1].to_state)

\* three FATIGUE_ACCUMULATION events in a row: LOW, HIGH, LOW
C5_Witness ==
    /\ Len(state_history) = 3
    /\ \A i \in 1..3 : state_history[i].trigger_event = "FATIGUE_ACCUMULATION"
    /\ state_history[1].to_state = "FATIGUE_LOW"
    /\ state_history[2].to_state = "FATIGUE_HIGH"
    /\ state_history[3].to_state = "FATIGUE_LOW"
    /\ current_state = "FATIGUE_LOW"

\* C6: ATTENTION_DECLINE leads to DISTRACTION_DANGER exactly from
\* DISTRACTION_NORMAL and to DISTRACTION_NORMAL from every other state.
C6_AttentionToggle ==
    [][handle_event("ATTENTION_DECLINE") =>
        current_state' = IF current_state = "DISTRACTION_NORMAL"
                         THEN "DISTRACTION_DANGER" ELSE "DISTRACTION_NORMAL"]_vars

\* ATTENTION_DECLINE took the machine from DISTRACTION_DANGER back to DISTRACTION_NORMAL
C6_Witness ==
    /\ Len(state_history) >= 1
    /\ LastRecord.trigger_event = "ATTENTION_DECLINE"
    /\ LastRecord.from_state = "DISTRACTION_DANGER"
    /\ current_state = "DISTRACTION_NORMAL"

\* C7: DISTRACTION_OBJECT_DETECTED leads to MULTIPLE_RISK from FATIGUE_HIGH and
\* EMOTIONAL_STRESS and to DISTRACTION_DANGER from every other state,
\* MULTIPLE_RISK included.
C7_ObjectDetected ==
    [][handle_event("DISTRACTION_OBJECT_DETECTED") =>
        current_state' = IF current_state \in {"FATIGUE_HIGH", "EMOTIONAL_STRESS"}
                         THEN "MULTIPLE_RISK" ELSE "DISTRACTION_DANGER"]_vars

\* DISTRACTION_OBJECT_DETECTED raised EMOTIONAL_STRESS to MULTIPLE_RISK and a
\* second one then took MULTIPLE_RISK to DISTRACTION_DANGER
C7_Witness ==
    /\ Len(state_history) >= 2
    /\ LastRecord.trigger_event = "DISTRACTION_OBJECT_DETECTED"
    /\ LastRecord.from_state = "MULTIPLE_RISK"
    /\ current_state = "DISTRACTION_DANGER"
    /\ state_history[Len(state_history) - 1].trigger_event = "DISTRACTION_OBJECT_DETECTED"
    /\ state_history[Len(state_history) - 1].from_state = "EMOTIONAL_STRESS"

\* C8: an event that no branch of the transition function names leaves the
\* state, state_start_time and the history unchanged, in every state.
C8_UnknownNoOp ==
    [][\A event \in AnalysisEvents \ HandledEvents :
        handle_event(event) =>
            UNCHANGED <<current_state, state_start_time, state_history>>]_vars

\* an unhandled event was delivered in a non-SAFE state
C8_Witness ==
    /\ last_event \in AnalysisEvents \ HandledEvents
    /\ current_state # "SAFE"
    /\ Len(state_history) >= 1

----------------------------------------------------------------------------
(* Claims about the synchronisation buffer *)

\* the modalities recorded in the pending entry of t
PendingMods(t) == IF t \in DOMAIN result_buffer THEN DOMAIN result_buffer[t] ELSE {}

\* the bundle (frame, results) emitted when result r of modality m completes t
ExpectedBundle(t, m, r) ==
    <<frame_buffer[t], (m :> r) @@ GetOr(result_buffer, t, EmptyDict)>>

\* the step appends bundle b to the output queue, dropping the head if 5 are queued
QueueGot(b) ==
    IF Len(processed_data_queue) < 5
    THEN processed_data_queue' = Append(processed_data_queue, b)
    ELSE processed_data_queue' = Append(Tail(processed_data_queue), b)

QueueSame == processed_data_queue' = processed_data_queue

BothDelivered(t) == {<<t, "face">>, <<t, "pose">>} \subseteq delivered

SyncTimes == 0..SyncClock

\* C1 as stated: a bundle for t has been appended to the output queue if and
\* only if both a face and a pose result have been recorded for t (so it is
\* appended by the callback that records the second one), whatever else holds.
C1_Original ==
    \A t \in SyncTimes : (t \in emitted) <=> BothDelivered(t)

\* C1 as amended: a face (pose) callback for t appends a bundle exactly when
\* the pending entry of t already holds a pose (face) result and a frame is
\* still buffered for t; the bundle is that frame with every result pending
\* for t. Without a buffered frame nothing is appended. Hand and object
\* callbacks and the storing of a frame never append.
C1_EmitRule ==
    [][/\ \A t \in SyncTimes, r \in Results :
            /\ on_face_result(r, t) =>
                    IF "pose" \in PendingMods(t) /\ t \in DOMAIN frame_buffer
                    THEN QueueGot(ExpectedBundle(t, "face", r))
                    ELSE QueueSame
            /\ on_pose_result(r, t) =>
                    IF "face" \in PendingMods(t) /\ t \in DOMAIN frame_buffer
                    THEN QueueGot(ExpectedBundle(t, "pose", r))
                    ELSE QueueSame
            /\ on_hand_result(r, t) => QueueSame
            /\ on_object_result(r, t) => QueueSame
       /\ run_tasks => QueueSame]_vars

\* one timestamp was emitted with face and pose only, and another one has had
\* both results recorded without a bundle (its frame was pruned in between)
C1_Witness ==
    /\ \E i \in 1..Len(processed_data_queue) :
            DOMAIN processed_data_queue[i][2] = {"face", "pose"}
    /\ \E t \in submitted : BothDelivered(t) /\ t \notin emitted

QueueTimes == 0..QueueClock

\* C9: the output queue never holds more than 5 bundles; a bundle emitted
\* while 5 are queued drops the oldest one and keeps the 4 others and the new
\* one in emission order; the callback that emits is never disabled by the
\* length of the queue.
C9_BoundedQueue ==
    /\ [](Len(processed_data_queue) <= 5)
    /\ [](\A t \in DOMAIN frame_buffer :
            ENABLED on_face_result("r", t) /\ ENABLED on_pose_result("r", t))
    /\ [][\A t \in QueueTimes, r \in Results :
            /\ (on_face_result(r, t) /\ "pose" \in PendingMods(t)
                    /\ t \in DOMAIN frame_buffer)
                => QueueGot(ExpectedBundle(t, "face", r))
            /\ (on_pose_result(r, t) /\ "face" \in PendingMods(t)
                    /\ t \in DOMAIN frame_buffer)
                => QueueGot(ExpectedBundle(t, "pose", r))]_vars

\* six bundles were emitted and none consumed: the queue holds the five newest
C9_Witness ==
    /\ Len(processed_data_queue) = 5
    /\ consumed = {}
    /\ Cardinality(emitted) = 6
    /\ \A i \in 1..5 : processed_data_queue[i][1] \in emitted
    /\ \A i \in 1..4 : processed_data_queue[i][1] < processed_data_queue[i + 1][1]
    /\ \E t \in emitted : t < processed_data_queue[1][1]

PruneTimes == 0..PruneClock

\* the callback for t completes face and pose, so _prune_buffers runs
PruneRuns(t, r) ==
    \/ on_face_result(r, t) /\ "pose" \in PendingMods(t)
    \/ on_pose_result(r, t) /\ "face" \in PendingMods(t)

\* C10: right after _prune_buffers has run at time now, no entry of a
\* timestamp that was not emitted and is more than 2000 ms old is left in
\* result_buffer or frame_buffer, and every other pending entry that is at
\* most 2000 ms old is as it was.
C10_PruneComplete ==
    [][\A t \in PruneTimes, r \in Results :
        PruneRuns(t, r) =>
            /\ \A ts \in (DOMAIN result_buffer' \cup DOMAIN frame_buffer') \ emitted' :
                    now - ts <= 2
            /\ \A ts \in DOMAIN result_buffer \ {t} :
                    now - ts <= 2 =>
                        /\ ts \in DOMAIN result_buffer'
                        /\ result_buffer'[ts] = result_buffer[ts]
            /\ \A ts \in DOMAIN frame_buffer \ {t} :
                    now - ts <= 2 =>
                        /\ ts \in DOMAIN frame_buffer'
                        /\ frame_buffer'[ts] = frame_buffer[ts]]_vars

\* the capture times that are older than the horizon before the clock of the
\* stalled-modality specification stops
StallTimes == 0..(StallClock - PruneHorizon - 1)

\* C11: a pending entry whose face or pose result never arrives is
\* eventually removed by the time-based prune: every entry and every frame
\* pending for a timestamp, once older than 2000 ms, is eventually gone, so
\* the pending entries do not pile up when a required modality stops arriving.
C11_EventuallyPruned ==
    \A t \in StallTimes :
        (/\ t \in DOMAIN result_buffer \cup DOMAIN frame_buffer
         /\ now - t > PruneHorizon)
        ~> (t \notin DOMAIN result_buffer \cup DOMAIN frame_buffer)

RepeatTimes == 0..RepeatClock

\* the step appends a bundle of timestamp t to the output queue
BundleAppended(t) ==
    /\ processed_data_queue' # processed_data_queue
    /\ Len(processed_data_queue') >= Len(processed_data_queue)
    /\ processed_data_queue'[Len(processed_data_queue')][1] = t

\* C12: over any sequence of record callbacks, repeated face and pose
\* results for one timestamp included, at most one bundle is ever emitted for
\* a timestamp: no step appends a bundle for a timestamp that already had one,
\* and no timestamp is twice in the output queue or both queued and consumed.
C12_OneBundle ==
    /\ [][\A t \in RepeatTimes : t \in emitted => ~BundleAppended(t)]_vars
    /\ [](\A i, j \in 1..Len(processed_data_queue) :
            /\ i # j => processed_data_queue[i][1] # processed_data_queue[j][1]
            /\ processed_data_queue[i][1] \notin consumed)

\* a timestamp whose bundle was emitted had face and pose recorded again
\* later: the second completion found no frame and emitted nothing
C12_Witness ==
    \E t \in emitted \cap dropped :
        /\ t \notin DOMAIN result_buffer
        /\ t \notin DOMAIN frame_buffer

\* the bundle of t has been emitted, or its frame and entry have been pruned
EmittedOrPruned(t) ==
    \/ t \in emitted
    \/ t \in submitted /\ t \notin DOMAIN frame_buffer

\* C13: a hand or object result recorded for a timestamp whose bundle has
\* already been emitted, or whose entry has already been pruned, has no
\* effect: it creates no pending entry, emits no bundle and leaves the
\* buffers and the output queue as they were.
C13_LateResultNoEffect ==
    [][\A t \in SyncTimes, r \in Results :
        ((on_hand_result(r, t) \/ on_object_result(r, t)) /\ EmittedOrPruned(t))
            => UNCHANGED <<frame_buffer, result_buffer, processed_data_queue>>]_vars

\* the bundles of timestamp t in the output queue
BundlesOf(t) ==
    {i \in 1..Len(processed_data_queue) : processed_data_queue[i][1] = t}

\* C14: insert, emit and prune exclude one another: when the face and the
\* pose callback of one timestamp run concurrently, interleaved statement by
\* statement, no recorded payload is lost and exactly one bundle with both
\* results is emitted. Once both callbacks have recorded their result and
\* returned, for a frame still inside the horizon, the output queue holds
\* exactly one bundle of the timestamp, and it carries face and pose.
C14_RaceFree ==
    \A t \in submitted :
        (/\ BothDelivered(t)
         /\ cb["face"].pc = "returned"
         /\ cb["pose"].pc = "returned"
         /\ now - t <= PruneHorizon)
        => /\ Cardinality(BundlesOf(t)) = 1
           /\ \A i \in BundlesOf(t) :
                {"face", "pose"} \subseteq DOMAIN processed_data_queue[i][2]

\* C15: no interleaving of the record callbacks and the prune ends in an
\* exception: no callback ever raises.
C15_NoException == raised = {}

----------------------------------------------------------------------------
(* Claims about the event counter *)

\* the events of a type added at a time T with now - T <= window
InWindow(type) ==
    {i \in 1..Len(added[type]) : now - added[type][i] <= CountWindow[type]}

\* C16: for each event type (blink 60 s, yawn 300 s, head_nod 120 s,
\* gaze_deviation 60 s) and any sequence of add_event calls at any rate, an
\* event added at time T is counted by get_event_counts at every time now
\* with now - T <= window and at no time with now - T > window: the count
\* of a type is the number of its events added inside the window, so the
\* capacity of the buffer hides none of them.
C16_WindowObservable ==
    \A type \in EventTypes :
        get_event_counts[type] = Cardinality(InWindow(type))

----------------------------------------------------------------------------
(* Claims about the identity cache *)

\* the step is a lookup of the watched key
WatchedLookup ==
    \E inclusive \in EndOfLife :
        \E info \in Computable(WatchedKey, inclusive) :
            _cached_identify_driver(WatchedKey, info, inclusive)

\* C17 as stated: two lookups of one key less than 300 s apart run the
\* computation once and return the identical value (a lookup less than 300 s
\* after the lookup that computed the value of the key does not compute and
\* returns that value), and a lookup more than 300 s after the entry was
\* inserted computes again.
C17_Original ==
    [][WatchedLookup =>
        /\ (watched.computed_at # None /\ now - watched.computed_at < 300)
           => /\ ~last_call'.computed
              /\ last_call'.value = watched.value
        /\ (watched.computed_at # None /\ now - watched.computed_at > 300)
           => last_call'.computed]_vars

\* C17 as amended: a lookup made less than 300 s after the computation that
\* inserted the entry of its key, the entry not having been evicted since,
\* runs no computation and returns the inserted value; a lookup of a key
\* with no entry, or made more than 300 s after the computation that
\* inserted its entry, runs the computation again, whether or not the entry
\* was hit in between.
C17_Memo ==
    [][WatchedLookup =>
        /\ (/\ Holds(identity_cache, WatchedKey)
            /\ watched.computed_at # None
            /\ now - watched.computed_at < 300)
           => /\ ~last_call'.computed
              /\ last_call'.value = watched.value
              /\ watched'.computed_at = watched.computed_at
        /\ (\/ ~Holds(identity_cache, WatchedKey)
            \/ watched.computed_at # None /\ now - watched.computed_at > 300)
           => /\ last_call'.computed
              /\ watched'.computed_at = now
              /\ Holds(identity_cache', WatchedKey)]_vars

\* the watched key was computed, hit 160 s and more later while other keys
\* were cached, and computed again more than 300 s after the first computation
C17_Witness ==
    /\ last_call = [key |-> WatchedKey, value |-> watched.value, computed |-> TRUE]
    /\ watched.computed_at = now
    /\ now > 300
    /\ Len(identity_cache) >= 2
    /\ \E i \in 1..Len(identity_cache) : identity_cache[i].expires < now + 300

\* the entries that have not expired (an entry at the very end of its
\* time-to-live counted)
LiveKeys == {identity_cache[i].key : i \in {j \in 1..Len(identity_cache) :
                                            now <= identity_cache[j].expires}}

\* the step is a lookup that misses while 5 entries are live
MissWhenFull(key) ==
    /\ ~Holds(identity_cache, key)
    /\ Cardinality(LiveKeys) = 5
    /\ \A i \in 1..Len(identity_cache) : now < identity_cache[i].expires
    /\ \E info \in DriverInfos : _cached_identify_driver(key, info, TRUE)
    /\ last_call'.computed

\* the key that is in the cache before the step and not after it
Evicted(key) == Holds(identity_cache, key) /\ ~Holds(identity_cache', key)

\* C18 as stated: the cache never holds more than 5 live entries, and a miss
\* that inserts while 5 are live evicts the entry with the oldest insertion
\* time, however recently any entry was read.
C18_Original ==
    [][\A key \in 1..CacheKeys :
        MissWhenFull(key) =>
            \A i \in 1..Len(identity_cache) :
                Evicted(identity_cache[i].key) =>
                    \A j \in 1..Len(identity_cache) :
                        identity_cache[i].expires <= identity_cache[j].expires]_vars

\* C18 as amended: the cache never holds more than 5 entries, and a miss
\* that inserts while 5 are live evicts exactly one entry, the least
\* recently used one: the one whose latest lookup, hit or insertion, is the
\* oldest.
C18_EvictLRU ==
    /\ [](Len(identity_cache) <= 5 /\ Cardinality(LiveKeys) <= 5)
    /\ [][\A key \in 1..CacheKeys :
            MissWhenFull(key) =>
                /\ Evicted(used[1])
                /\ \A k \in LiveKeys \ {used[1]} : ~Evicted(k)
                /\ Len(identity_cache') = 5]_vars

\* the watched key was inserted first and read again later; the next miss on
\* a full cache evicted the second key, so the oldest entry is still cached
C18_Witness ==
    /\ Len(identity_cache) = 5
    /\ keys_used = 6
    /\ Holds(identity_cache, WatchedKey)
    /\ ~Holds(identity_cache, WatchedKey + 1)
    /\ last_call = [key |-> 6, value |-> last_call.value, computed |-> TRUE]
    /\ \A i \in 1..5 :
            EntryOf(identity_cache, WatchedKey).expires <= identity_cache[i].expires
    /\ EntryOf(identity_cache, WatchedKey).expires < identity_cache[5].expires

----------------------------------------------------------------------------
(* Claims about the processing cycle *)

\* the fallback identity: an unknown driver, confidence 0
UnknownDriver == [driver_identity |-> "unknown", driver_confidence |-> 0]

\* the statements of a cycle after the tasks have been awaited
AfterGather ==
    {"fusion", "predictive", "check_fatigue", "check_stress", "check_object",
     "check_normal", "return"}

\* C20: when the identification computation fails during face processing,
\* the cycle sets the driver identity to an unknown driver with confidence 0
\* and continues through fusion, risk aggregation and the state-machine
\* update: the failure neither aborts the cycle nor ends the main loop, and a
\* cycle whose identification failed goes through its later statements with
\* the unknown driver in the snapshot.
C20_FailureContained ==
    /\ main_loop = "running"
    /\ cycle.pc # "aborted"
    /\ (cycle.error /\ cycle.pc \in AfterGather) =>
            /\ metrics.driver_identity = UnknownDriver.driver_identity
            /\ metrics.driver_confidence = UnknownDriver.driver_confidence

----------------------------------------------------------------------------
(* Claims about the fusion *)

\* the modalities that take part in the score of the latest call, in the
\* order of the claim, each with its availability, contribution and weight
Members ==
    IF applied.fn = "fuse_drowsiness_signals"
    THEN <<[available |-> applied.face_data.available,
            contribution |-> face_drowsiness(applied.face_data),
            weight |-> Hundredths[35]],
           [available |-> applied.pose_data.available,
            contribution |-> pose_drowsiness(applied.pose_data),
            weight |-> Hundredths[25]],
           [available |-> applied.emotion_data.available,
            contribution |-> emotion_fatigue(applied.emotion_data),
            weight |-> Hundredths[10]]>>
    ELSE <<[available |-> applied.face_data.available,
            contribution |-> face_distraction(applied.face_data),
            weight |-> Hundredths[35]],
           [available |-> applied.hand_data.available,
            contribution |-> hand_distraction(applied.hand_data),
            weight |-> Hundredths[20]],
           [available |-> applied.object_data.available,
            contribution |-> object_distraction(applied.object_data),
            weight |-> Hundredths[10]],
           [available |-> applied.emotion_data.available,
            contribution |-> emotion_distraction(applied.emotion_data),
            weight |-> Hundredths[10]]>>

AvailableMembers == SelectSeq(Members, LAMBDA member : member.available)

RECURSIVE SumContributions(_)
SumContributions(members) ==
    IF members = <<>> THEN F0
    ELSE FAdd(SumContributions(SubSeq(members, 1, Len(members) - 1)),
              FMul(members[Len(members)].contribution, members[Len(members)].weight))

RECURSIVE SumWeights(_)
SumWeights(members) ==
    IF members = <<>> THEN F0
    ELSE FAdd(SumWeights(SubSeq(members, 1, Len(members) - 1)),
              members[Len(members)].weight)

Fused == applied.fn \in {"fuse_drowsiness_signals", "fuse_distraction_signals"}

\* C21: for every combination of availability flags, the fused fatigue is
\* the sum of contribution * weight over the available members of face, pose
\* and emotion divided by the sum of their weights, and the fused distraction
\* the same over face, hand, object and emotion, with the weights 0.35 (face),
\* 0.25 (pose), 0.20 (hand), 0.10 (object), 0.10 (emotion), the sums taken in
\* that order in float arithmetic; an unavailable modality adds nothing to
\* either sum, and the result is 0 when none is available.
C21_WeightedMean ==
    Fused =>
        IF AvailableMembers = <<>>
        THEN FEq(applied.result, F0)
        ELSE FEq(applied.result,
                 FDiv(SumContributions(AvailableMembers), SumWeights(AvailableMembers)))

\* a distraction score fused from face and object while the hand, with a
\* contribution of 1, and the emotion are unavailable
C21_Witness ==
    /\ applied.fn = "fuse_distraction_signals"
    /\ applied.face_data.available
    /\ ~applied.hand_data.available
    /\ FEq(hand_distraction(applied.hand_data), F1)
    /\ applied.object_data.available
    /\ ~applied.emotion_data.available
    /\ FGt(applied.result, F0)
    /\ FLt(applied.result, F1)
    /\ ~FEq(face_distraction(applied.face_data), object_distraction(applied.object_data))

\* C22: when exactly one modality is available, the fused score is exactly
\* the raw contribution of that modality, whatever its weight.
C22_SingleExact ==
    (Fused /\ Len(AvailableMembers) = 1) =>
        FEq(applied.result, AvailableMembers[1].contribution)

----------------------------------------------------------------------------
(* Claims about the risk level *)

Assessed == applied.fn = "_determine_enhanced_overall_risk"

Thresholds == {Tenths[2], Tenths[4], Tenths[6], Tenths[8]}

LevelOrder == <<"SAFE", "LOW", "MEDIUM", "HIGH", "CRITICAL">>

\* the thresholds the combined risk is strictly above
Exceeded(combined) == {t \in Thresholds : FGt(combined, t)}

\* C23: the risk level is the one of the highest threshold the combined risk
\* is strictly above (0.8 CRITICAL, 0.6 HIGH, 0.4 MEDIUM, 0.2 LOW, none
\* SAFE), so a combined risk equal to a threshold gets the level below it.
C23_StrictThresholds ==
    Assessed =>
        applied.result = LevelOrder[Cardinality(Exceeded(applied.combined_risk)) + 1]

\* all four thresholds are met exactly within one run, each with the level
\* below it
AtThreshold(t, level) ==
    Assessed /\ FEq(applied.combined_risk, t) /\ applied.result = level

C23_Witness == AtThreshold(Tenths[8], "HIGH")

C23_WitnessLow == AtThreshold(Tenths[2], "SAFE")

RollCondition ==
    /\ FGt(FAbs(applied.metrics.head_roll), FromInt(25))
    /\ FGt(applied.metrics.gaze_zone_duration, F1)

StressCondition ==
    applied.metrics.emotion_state = "STRESS"
        /\ FGt(applied.metrics.emotion_confidence, Tenths[7])

ComplexityCondition == FGt(applied.metrics.pose_complexity_score, Tenths[7])

Capped(x) == IF FGt(x, F1) THEN F1 ELSE x

AtLeast(x, floor) == IF FLt(x, floor) THEN floor ELSE x

Step1 == FMax(applied.metrics.fatigue_risk_score, applied.metrics.distraction_risk_score)

Step2 == FAdd(FMul(Tenths[7], Step1), FMul(Tenths[3], applied.metrics.predictive_risk_score))

Step3 == IF StressCondition THEN Capped(FAdd(Step2, Tenths[2])) ELSE Step2

Step4 == IF ComplexityCondition THEN Capped(FAdd(Step3, Tenths[1])) ELSE Step3

Step5 == IF RollCondition THEN AtLeast(Step4, Tenths[7]) ELSE Step4

FaceOnlyScenario ==
    /\ FEq(applied.metrics.fatigue_risk_score, Hundredths[45])
    /\ FEq(applied.metrics.distraction_risk_score, Tenths[2])
    /\ FEq(applied.metrics.predictive_risk_score, F0)
    /\ ~StressCondition /\ ~ComplexityCondition /\ ~RollCondition

\* C24: the combined risk is max(fatigue, distraction), blended as
\* 0.7 * combined + 0.3 * predictive, plus 0.2 capped at 1 under stress with
\* confidence > 0.7, plus 0.1 capped at 1 when the pose complexity is > 0.7,
\* raised to at least 0.7 when |head_roll| > 25 and the gaze-zone duration is
\* > 1.0 s, in this order; so the head-roll condition gives HIGH or CRITICAL
\* and the face-only scenario (0.45, 0.2, 0) gives LOW.
C24_CombinedRisk ==
    Assessed =>
        /\ FEq(applied.combined_risk, Step5)
        /\ RollCondition => applied.result \in {"HIGH", "CRITICAL"}
        /\ FaceOnlyScenario => applied.result = "LOW"

\* the head-roll condition raises a risk that stress and pose complexity had
\* added to, and the result is HIGH
C24_Witness ==
    /\ Assessed /\ RollCondition /\ StressCondition /\ ComplexityCondition
    /\ FLt(Step4, Tenths[7])
    /\ FGt(Step4, Step2)
    /\ applied.result = "HIGH"

C24_WitnessFaceOnly == Assessed /\ FaceOnlyScenario /\ applied.result = "LOW"

----------------------------------------------------------------------------
(* Claims about the order of a cycle *)

Running(part) == Part(cycle.pc) = part

Started(part) == Running(part) \/ part \in cycle.finished

\* C25: within one cycle the hand task has finished when the object
\* analysis starts, the face task and the pose task have both finished when
\* the fusion starts, and fusion, predictive analysis and driver-state update
\* run in that order, each after the one before it has finished.
C25_Ordering ==
    /\ Started("object") => "hand" \in cycle.finished
    /\ Started("fusion") => {"face", "pose"} \subseteq cycle.finished
    /\ Started("predictive") => "fusion" \in cycle.finished
    /\ Started("update") => "predictive" \in cycle.finished

\* a cycle that identified the driver in its face task is at its end
C25_Witness ==
    /\ cycle.pc = "return"
    /\ {"face", "pose", "hand", "object", "fusion", "predictive"} \subseteq cycle.finished
    /\ metrics # InitialMetrics

\* the bundles that wait in the output queue
Waiting == (emitted \ consumed) \ dropped

\* a cycle is under way for the bundle taken last, and every bundle taken
\* before it has gone through its whole cycle
OneCycle ==
    /\ Cardinality(consumed) - cycle.done \in {0, 1}
    /\ cycle.pc # "idle" => cycle.done = Cardinality(consumed)

\* a step that takes bundles takes one, the oldest that waits, while no cycle
\* is under way
TakesOne ==
    consumed' # consumed =>
        /\ cycle.pc = "idle"
        /\ cycle.done = Cardinality(consumed)
        /\ \E t \in Waiting :
            /\ consumed' = consumed \cup {t}
            /\ \A other \in Waiting : t <= other
            /\ t \notin Waiting'

\* C26: at most one cycle is active at any time: the main loop takes one
\* bundle at a time, only when the cycle of the bundle taken before has come to
\* its end, and takes the bundles in the order of their emission, each at most
\* once.
C26_OneCycleAtATime == []OneCycle /\ [][TakesOne]_vars

\* a bundle waits in the queue while the cycle of an earlier one is under way
C26_Witness ==
    /\ cycle.pc = "fusion"
    /\ cycle.done = 1
    /\ processed_data_queue # <<>>

----------------------------------------------------------------------------
(* Claims about the length of the transition history *)

\* the record of the change of state made by this step
ChangeRecord ==
    [timestamp |-> now, from_state |-> current_state,
     to_state |-> current_state', trigger_event |-> last_event']

\* the history after one more change: the most recent records, in order
MostRecent(history, record) ==
    IF Len(history) = 100
    THEN [i \in 1..100 |-> IF i < 100 THEN history[i + 1] ELSE record]
    ELSE history \o <<record>>

HistoryStep ==
    IF current_state' # current_state
    THEN state_history' = MostRecent(state_history, ChangeRecord)
    ELSE state_history' = state_history

\* C27: the transition history never holds more than 100 records; a change of
\* state with 100 records stored drops the oldest record and appends the new
\* one, so that the history is the most recent (at most 100) changes in order.
C27_HistoryBounded == [](Len(state_history) <= 100) /\ [][HistoryStep]_vars

\* 100 records are stored and the first records of the run are no longer
\* among them: the oldest one stored was made later than the run began, from
\* a state other than the initial one
C27_Witness ==
    /\ Len(state_history) = 100
    /\ state_history[1].from_state = "FATIGUE_HIGH"
    /\ state_history[1].timestamp = HistoryClock
    /\ state_history[100].to_state = current_state

----------------------------------------------------------------------------
(* Claims about the payloads of a bundle *)

\* thread m emits now: it holds the frame of its timestamp and takes the
\* entry of the timestamp out of result_buffer; frame and entry are the bundle
Emitting(m) ==
    /\ cb[m].pc = "pop_results"
    /\ cb[m].frame # None
    /\ cb[m].timestamp_ms \in DOMAIN result_buffer

\* the payloads recorded so far for timestamp t, by modality
RecordedFor(t) == {modality \in Modalities : <<t, modality>> \in delivered}

\* C28: an emitted bundle contains, for each modality, the payload recorded
\* for its timestamp before the moment of emission: hand and object are in
\* the bundle if and only if they were recorded before that moment, and face
\* and pose alone give a bundle of face and pose only.
C28_LatestPayloads ==
    \A m \in Modalities :
        Emitting(m) =>
            DOMAIN result_buffer[cb[m].timestamp_ms] = RecordedFor(cb[m].timestamp_ms)

----------------------------------------------------------------------------
(* Claims about the synthesized events *)

\* a call of _check_enhanced_state_transitions has been made
Checked == applied.fn = "_check_enhanced_state_transitions"

\* the call delivered the event to the state machine
DeliveredEvent(event) == \E i \in 1..Len(applied.result) : applied.result[i] = event

\* C29: in every processing cycle each synthesized event is delivered to the
\* state machine exactly when its own condition holds, whatever the other
\* conditions: FATIGUE_ACCUMULATION iff fatigue > 0.8, ATTENTION_DECLINE iff
\* distraction > 0.7, EMOTION_STRESS_DETECTED iff the emotion is stress with a
\* confidence > 0.7, DISTRACTION_OBJECT_DETECTED iff a distracting object is
\* present, NORMAL_BEHAVIOR iff the fatigue, distraction and predictive scores
\* are all below 0.5.
C29_EventsByCondition ==
    Checked =>
        LET m == applied.metrics IN
        /\ DeliveredEvent("FATIGUE_ACCUMULATION") <=> FGt(m.fatigue_risk_score, Tenths[8])
        /\ DeliveredEvent("ATTENTION_DECLINE") <=> FGt(m.distraction_risk_score, Tenths[7])
        /\ DeliveredEvent("EMOTION_STRESS_DETECTED")
            <=> (m.emotion_state = "STRESS" /\ FGt(m.emotion_confidence, Tenths[7]))
        /\ DeliveredEvent("DISTRACTION_OBJECT_DETECTED") <=> m.distraction_objects # <<>>
        /\ DeliveredEvent("NORMAL_BEHAVIOR")
            <=> /\ FLt(m.fatigue_risk_score, Tenths[5])
                /\ FLt(m.distraction_risk_score, Tenths[5])
                /\ FLt(m.predictive_risk_score, Tenths[5])

----------------------------------------------------------------------------
(* Claims about steady input *)

\* the step changes neither the driver state nor the transition history
StateKept ==
    /\ current_state' = current_state
    /\ state_history' = state_history

\* C30: no state chatter under steady input: when every consecutive cycle
\* finds the same metrics, and so delivers the same events, then from some
\* cycle on the driver state no longer changes and no further transition
\* record is appended.
C30_NoChatter == <>[][StateKept]_vars

----------------------------------------------------------------------------
(* Claims about the contributions to the fusion *)

\* the numbers of distracting objects that give the score of the latest call
ObjectCounts ==
    {n \in 0..MaxObjects :
        FEq(applied.object_data.distraction_score, FDiv(FromInt(n), FromInt(5)))}

\* C32: the contribution of the object modality to the distraction is the
\* number of distracting objects divided by 5, capped at 1.0, for every number
\* of objects, those above 5 included.
C32_ObjectCapped ==
    (applied.fn = "fuse_distraction_signals" /\ applied.object_data.available) =>
        \E n \in ObjectCounts :
            FEq(object_distraction(applied.object_data),
                FMin(FDiv(FromInt(n), FromInt(5)), F1))

\* C33: when emotion is available, its contribution to the fatigue is the
\* confidence if the emotion is FATIGUE and max(0, 1 - arousal) otherwise, for
\* every arousal in [0, 1].
C33_EmotionFatigue ==
    (applied.fn = "fuse_drowsiness_signals" /\ applied.emotion_data.available) =>
        FEq(emotion_fatigue(applied.emotion_data),
            IF applied.emotion_data.emotion = "FATIGUE"
            THEN applied.emotion_data.confidence
            ELSE FMax(F0, FSub(F1, applied.emotion_data.arousal)))

\* C36: with sub-scores in [0, 1], any number of hands and any number of
\* distracting objects, the fused fatigue and the fused distraction of a cycle
\* lie in [0, 1].
C36_FusedInRange ==
    Fused => (~FLt(applied.result, F0) /\ ~FGt(applied.result, F1))

----------------------------------------------------------------------------
(* Claims about the statistics *)

\* what a reader of the statistics finds, an absent entry read as 0
total_transitions == GetOr(get_state_statistics, "total_transitions", 0)

CountOf(statistics, state) ==
    GetOr(GetOr(statistics, "state_counts", EmptyDict), state, 0)

\* the statistics count the change of state this step makes, if it makes one
ChangeCounted ==
    IF current_state' # current_state
    THEN /\ total_transitions' = total_transitions + 1
         /\ \A state \in DriverStates :
                CountOf(get_state_statistics', state) =
                    CountOf(get_state_statistics, state)
                        + (IF state = current_state' THEN 1 ELSE 0)
    ELSE get_state_statistics' = get_state_statistics

\* C34: after any sequence of events get_state_statistics reports
\* total_transitions equal to the number of changes of state since the start
\* of the session, and state_counts[s] equal to the number of those changes
\* that entered s: both are 0 at the start and every change of state adds one
\* to the total and one to the count of the state entered.
C34_Statistics ==
    /\ total_transitions = 0
    /\ \A state \in DriverStates : CountOf(get_state_statistics, state) = 0
    /\ [][ChangeCounted]_vars

----------------------------------------------------------------------------
(* Claims about the chain of the transition history *)

\* C35: the transition history is a consistent chain in every reachable
\* state: every record has from_state # to_state, the to_state of every record
\* is the from_state of the next one, and the to_state of the last record is
\* the current state; with an empty history the state is the initial one, SAFE.
C35_ConsistentChain ==
    /\ \A i \in 1..Len(state_history) :
            state_history[i].from_state # state_history[i].to_state
    /\ \A i \in 1..(Len(state_history) - 1) :
            state_history[i].to_state = state_history[i + 1].from_state
    /\ IF state_history = <<>>
       THEN current_state = "SAFE"
       ELSE state_history[Len(state_history)].to_state = current_state

\* a chain of three records: SAFE, EMOTIONAL_STRESS, MULTIPLE_RISK, FATIGUE_LOW
C35_Witness ==
    /\ Len(state_history) = 3
    /\ state_history[1].from_state = "SAFE"
    /\ state_history[2].from_state = "EMOTIONAL_STRESS"
    /\ state_history[2].to_state = "MULTIPLE_RISK"
    /\ state_history[3].trigger_event = "FATIGUE_ACCUMULATION"
    /\ current_state = "FATIGUE_LOW"

----------------------------------------------------------------------------
(* Claims about the driver state at the end of a cycle *)

\* the cycle has delivered its events
CycleEnd == cycle.pc = "return" /\ Scored

\* C37: the events of a cycle are delivered in the order PREDICTIVE_RISK_HIGH,
\* FATIGUE_ACCUMULATION or ATTENTION_DECLINE, EMOTION_STRESS_DETECTED,
\* DISTRACTION_OBJECT_DETECTED, NORMAL_BEHAVIOR, so every cycle in which stress
\* is detected (confidence > 0.7) and a distracting object is present ends with
\* the driver state MULTIPLE_RISK, whatever the state at its start.
C37_StressAndObject ==
    (/\ CycleEnd
     /\ metrics.emotion_state = "STRESS"
     /\ FGt(metrics.emotion_confidence, Tenths[7])
     /\ metrics.distraction_objects # <<>>)
        => current_state = "MULTIPLE_RISK"

\* such a cycle began in SAFE, reached after a hold of more than 5 s, also
\* delivered FATIGUE_ACCUMULATION and NORMAL_BEHAVIOR did not undo it
C37_Witness ==
    /\ CycleEnd
    /\ stress_detected(metrics)
    /\ objects_detected(metrics)
    /\ Len(state_history) >= 4
    /\ state_history[Len(state_history) - 3].trigger_event = "NORMAL_BEHAVIOR"
    /\ state_history[Len(state_history) - 2].trigger_event = "FATIGUE_ACCUMULATION"
    /\ current_state = "MULTIPLE_RISK"

\* C39: when only the events of the cycles of the analysis engine drive the
\* driver state, the states PHONE_USAGE and MICROSLEEP are never reached, for
\* any sequence of cycles and any metrics, a detected phone included.
C39_NoPhoneNoMicrosleep ==
    /\ current_state \notin {"PHONE_USAGE", "MICROSLEEP"}
    /\ \A i \in 1..Len(state_history) :
            state_history[i].to_state \notin {"PHONE_USAGE", "MICROSLEEP"}

\* a cycle that found a phone ends in DISTRACTION_DANGER
C39_Witness ==
    /\ CycleEnd
    /\ metrics.distraction_objects = <<"cell phone">>
    /\ state_history # <<>>
    /\ state_history[Len(state_history)].trigger_event = "DISTRACTION_OBJECT_DETECTED"
    /\ current_state = "DISTRACTION_DANGER"

----------------------------------------------------------------------------
(* Claims about the snapshot of the metrics *)

\* the statement of the cycle that handles the payload of a modality
StatementOf ==
    [face |-> "face_task", pose |-> "pose_task", hand |-> "hand_task", object |-> "object"]

\* the fields of the snapshot that the handling of a modality writes
OwnedFields ==
    [face |-> {"enhanced_ear", "perclos", "temporal_attention_score",
               "emotion_state", "emotion_confidence", "arousal_level"},
     pose |-> {}, hand |-> {},
     object |-> {"phone_detected", "distraction_objects"}]

\* the step handles the payload of the modality and finds it missing or empty
FoundMissing(modality) ==
    /\ cycle.pc = StatementOf[modality]
    /\ cycle'.pc # cycle.pc
    /\ modality \notin cycle'.latest_results

\* C31: when the payload of a modality is missing or empty in a cycle (no
\* face landmarks, no pose landmarks, no hand landmarks, no object detections),
\* the update of that modality is skipped and every field of the snapshot it
\* owns keeps the value of the cycle before.
C31_MissingRetains ==
    [][\A modality \in Modalities :
        FoundMissing(modality) =>
            \A field \in OwnedFields[modality] \cap DOMAIN metrics :
                metrics'[field] = metrics[field]]_vars

\* no face result was found in the cycle under way
FaceAbsent ==
    /\ "latest_results" \in DOMAIN cycle
    /\ "face" \notin cycle.latest_results

\* the emotion taken out of the fusion
NoEmotion == [emotion_dict EXCEPT !.available = FALSE]

\* C38: in a cycle without a face result the emotion, which comes from the
\* blendshapes of the face only, adds no weight to either fused score, and no
\* EMOTION_STRESS_DETECTED is delivered: the values an earlier cycle left in
\* the snapshot drive neither the fusion nor the events of this cycle.
C38_NoStaleEmotion ==
    [][FaceAbsent =>
        /\ (cycle.pc = "fusion" /\ cycle'.pc = "predictive") =>
                /\ FEq(metrics'.fatigue_risk_score,
                       fuse_drowsiness_signals(face_dict, pose_dict, NoEmotion))
                /\ FEq(metrics'.distraction_risk_score,
                       fuse_distraction_signals(face_dict, hand_dict, object_dict, NoEmotion))
        /\ (cycle.pc = "check_stress" /\ cycle'.pc = "check_object") =>
                UNCHANGED <<current_state, state_history, last_event>>]_vars

----------------------------------------------------------------------------
(* Claims about the end of the main loop *)

\* the loop is left by a step that is not the handling of the quit key
LoopLeft == main_loop = "running" /\ main_loop' = "ended" /\ last_key' # "q"

\* C40: once the video input has stopped, the main loop is not left, other
\* than by the quit key, while a bundle is still in the queue
C40_DrainsBeforeExit ==
    [][LoopLeft /\ stopped => processed_data_queue = <<>>]_vars

====
